---- MODULE Spec2Model ----
(***************************************************************************)
(* A model of yosai's session lifecycle and authorization engine:         *)
(*   - SimpleSession, the validity state machine of one session           *)
(*     (src/yosai/core/session/session.py);                               *)
(*   - CachingSessionStore, DefaultNativeSessionHandler and               *)
(*     DefaultNativeSessionManager over a cache that stores copies        *)
(*     (src/yosai/core/session/session.py);                               *)
(*   - ModularRealmAuthorizer over its realms                             *)
(*     (src/yosai/core/authz/authz.py).                                   *)
(* Each part has a specification of its own (SpecState, SpecCoord,        *)
(* SpecAuthz); the variables of the other parts stay as initialised.      *)
(***************************************************************************)
EXTENDS Integers, Sequences, FiniteSets, TLC

VARIABLES
    now,          \* the clock: what datetime.datetime.now(pytz.utc) returns
    session,      \* SpecState: the SimpleSession under test
    stop_called,  \* SpecState: stop() has been called on session
    last_call,    \* SpecState: the last call on session: op, at, pre, outcome
    cache,        \* SpecCoord: the cache handler's content, domain 'session'
    next_id,      \* SpecCoord: the next id of the session id generator
    handler,      \* SpecCoord: the DefaultNativeSessionHandler's settings
    coord_call,   \* SpecCoord: the last call on the session manager
    realms,       \* SpecAuthz: ModularRealmAuthorizer._realms
    event_bus,    \* SpecAuthz: ModularRealmAuthorizer._event_bus
    registered,   \* SpecAuthz: the realms were set with an event bus attached
    authz_call,   \* SpecAuthz: the last call on the authorizer or the bus
    threads,      \* SpecRace: each thread's call in progress on the session
    serial,       \* SpecRace: what the completed calls made of the session
    set_at,       \* SpecTtl: when the cached session entry was last set
    authz_info,   \* SpecIndex: IndexedAuthorizationInfo._permissions
    inserted,     \* SpecIndex: the permissions inserted and not replaced
    perm_call,    \* SpecImplies, SpecIndex: the last call and its arguments
    perm_object,  \* SpecPermission: the DefaultPermission under test
    objects,      \* SpecStore: the SimpleSession objects the callers hold
    store_call,   \* SpecStore: the last call on the CachingSessionStore
    role_sets,    \* SpecRoles: the content of each set object of roles
    infos,        \* SpecRoles: the _roles reference of each authorization info
    role_call     \* SpecRoles: the last call on an authorization info

state_vars == <<session, stop_called, last_call>>
coord_vars == <<cache, next_id, handler, coord_call>>
authz_vars == <<realms, event_bus, registered, authz_call>>
race_vars == <<threads, serial>>
ttl_vars == <<set_at>>
perm_vars == <<authz_info, inserted, perm_call, perm_object>>
store_vars == <<objects, store_call>>
role_vars == <<role_sets, infos, role_call>>
vars == <<now, session, stop_called, last_call, cache, next_id, handler,
          coord_call, realms, event_bus, registered, authz_call, threads,
          serial, set_at, authz_info, inserted, perm_call, perm_object,
          objects, store_call, role_sets, infos, role_call>>

---------------------------------------------------------------------------
(* Bounds of the model *)

\* the clock runs from 0 to MaxTime
MaxTime == 4
\* timeouts are None or a duration in 0..MaxTimeout
MaxTimeout == 2

---------------------------------------------------------------------------
(* Python values *)

\* Python's None where a timestamp, a duration or an id is expected;
\* timestamps, durations and ids of the model are >= 0
None == -1

\* the 'identifiers_session_key' internal attribute when it is not set
NoIdentifiers == "none"

\* another internal attribute, or an attribute, when it is not set
Unset == "unset"

Timestamps == 0..MaxTime
Timeouts == {None} \cup (0..MaxTimeout)

\* bool(timedelta): a timedelta of zero is falsy, None is falsy
TimedeltaTruthy(d) == d # None /\ d # 0

\* the empty string where a session id is expected
EmptyId == 0

\* bool(session_id): None and the empty string are falsy
IdTruthy(session_id) == session_id # None /\ session_id # EmptyId

\* bool(datetime): every datetime is truthy, None is falsy
DatetimeTruthy(t) == t # None

---------------------------------------------------------------------------
(* SimpleSession *)

\* SimpleSession.__init__ at time t, with session_settings' two timeouts.
\* _is_expired starts as None, which the code only ever tests for truth:
\* FALSE stands for it.
SimpleSession(t, abs_timeout, idle_timeout) ==
    [session_id       |-> None,
     start_timestamp  |-> t,
     last_access_time |-> t,
     stop_timestamp   |-> None,
     absolute_timeout |-> abs_timeout,
     idle_timeout     |-> idle_timeout,
     is_expired       |-> FALSE,
     identifiers      |-> NoIdentifiers,
     internal_attribute |-> Unset,
     attribute        |-> Unset]

is_stopped(s) == DatetimeTruthy(s.stop_timestamp)

absolute_expiration(s) ==
    IF TimedeltaTruthy(s.absolute_timeout)
    THEN s.start_timestamp + s.absolute_timeout
    ELSE None

idle_expiration(s) ==
    IF TimedeltaTruthy(s.idle_timeout)
    THEN s.last_access_time + s.idle_timeout
    ELSE None

touch(s, t) == [s EXCEPT !.last_access_time = t]

stop(s, t) ==
    IF ~DatetimeTruthy(s.stop_timestamp)
    THEN [s EXCEPT !.stop_timestamp = t]
    ELSE s

expire(s, t) == [stop(s, t) EXCEPT !.is_expired = TRUE]

is_valid(s) == ~is_stopped(s) /\ ~s.is_expired

\* is_timed_out at time t: "True", "False" or the exception it raises
is_timed_out(s, t) ==
    IF s.is_expired THEN "True"
    ELSE IF TimedeltaTruthy(s.absolute_timeout) \/ TimedeltaTruthy(s.idle_timeout)
    THEN IF ~DatetimeTruthy(s.last_access_time) THEN "IllegalStateException"
         ELSE IF DatetimeTruthy(absolute_expiration(s)) /\ t > absolute_expiration(s)
              THEN "True"
         ELSE IF DatetimeTruthy(idle_expiration(s)) /\ t > idle_expiration(s)
              THEN "True"
         ELSE "False"
    ELSE "False"

\* what validate raises once the session has timed out and expire() has run:
\* the message is built from last_access_time.isoformat(),
\* idle_timeout.seconds and absolute_timeout.seconds before the raise
expired_message(s) ==
    IF s.last_access_time = None \/ s.idle_timeout = None
       \/ s.absolute_timeout = None
    THEN "AttributeError"
    ELSE "ExpiredSessionException"

\* a mutant of validate: the expiry check runs before the stopped check
validate_expiry_first(s, t) ==
    LET timed == is_timed_out(s, t) IN
    IF timed = "IllegalStateException"
    THEN [session |-> s, outcome |-> "IllegalStateException"]
    ELSE IF timed = "True"
    THEN [session |-> expire(s, t), outcome |-> expired_message(expire(s, t))]
    ELSE IF is_stopped(s)
    THEN [session |-> s, outcome |-> "StoppedSessionException"]
    ELSE [session |-> s, outcome |-> "ok"]

\* validate at time t: the session afterwards and "ok" or the exception raised
validate(s, t) ==
    IF is_stopped(s)
    THEN [session |-> s, outcome |-> "StoppedSessionException"]
    ELSE LET timed == is_timed_out(s, t) IN
         IF timed = "IllegalStateException"
         THEN [session |-> s, outcome |-> "IllegalStateException"]
         ELSE IF timed = "True"
         THEN [session |-> expire(s, t),
               outcome |-> expired_message(expire(s, t))]
         ELSE [session |-> s, outcome |-> "ok"]

---------------------------------------------------------------------------
(* SpecState: one SimpleSession, its methods called in any order as the   *)
(* clock advances                                                          *)

NoCall == [op |-> "none", at |-> 0, pre |-> SimpleSession(0, None, None),
           outcome |-> "ok"]

Call(op, pre, outcome) == [op |-> op, at |-> now, pre |-> pre, outcome |-> outcome]

CoordIdle ==
    /\ cache = [sessions |-> <<>>, keys |-> <<>>]
    /\ next_id = 1
    /\ handler = [auto_touch |-> TRUE, delete_invalid_sessions |-> TRUE,
                  absolute_timeout |-> None, idle_timeout |-> None]
    /\ coord_call = [op |-> "none"]

\* ModularRealmAuthorizer.__init__: _realms = None, _event_bus = None. The
\* event bus object keeps the listeners registered with it.
NoRealms == [is_none |-> TRUE, tuple |-> << >>]
NoEventBus == [is_none |-> TRUE, listeners |-> {}]

AuthzIdle ==
    /\ realms = NoRealms
    /\ event_bus = NoEventBus
    /\ registered = FALSE
    /\ authz_call = [op |-> "none"]

\* what the completed calls on a session have made of it, stop_completed
\* once a stop call has finished, and no thread
NoneCompleted == [stopped |-> FALSE, identifiers |-> NoIdentifiers, stop_completed |-> FALSE]

RaceIdle ==
    /\ threads = << >>
    /\ serial = NoneCompleted

TtlIdle == set_at = None

\* no permission object: a permission that was constructed has no empty part
NoPermission ==
    [parts   |-> [level \in {"domain", "action", "target"} |-> {}],
     _domain |-> {}, _action |-> {}, _target |-> {}]

PermIdle ==
    /\ authz_info = << >>
    /\ inserted = {}
    /\ perm_call = [op |-> "none"]
    /\ perm_object = NoPermission

\* no session object is held and no call was made on the store
StoreIdle ==
    /\ objects = << >>
    /\ store_call = [op |-> "none"]

\* no set of roles and no authorization info exists
RoleIdle ==
    /\ role_sets = << >>
    /\ infos = << >>
    /\ role_call = [op |-> "none"]

InitState ==
    /\ now = 0
    /\ \E a \in 0..MaxTimeout, i \in 0..MaxTimeout :
          session = SimpleSession(0, a, i)
    /\ stop_called = FALSE
    /\ last_call = NoCall
    /\ CoordIdle
    /\ AuthzIdle
    /\ RaceIdle
    /\ TtlIdle
    /\ PermIdle
    /\ StoreIdle
    /\ RoleIdle

Tick ==
    /\ now < MaxTime
    /\ now' = now + 1
    /\ UNCHANGED <<state_vars, coord_vars, authz_vars, race_vars, ttl_vars, perm_vars, store_vars, role_vars>>

Touch ==
    /\ session' = touch(session, now)
    /\ last_call' = Call("touch", session, "ok")
    /\ UNCHANGED <<now, stop_called, coord_vars, authz_vars, race_vars, ttl_vars, perm_vars, store_vars, role_vars>>

Stop ==
    /\ session' = stop(session, now)
    /\ stop_called' = TRUE
    /\ last_call' = Call("stop", session, "ok")
    /\ UNCHANGED <<now, coord_vars, authz_vars, race_vars, ttl_vars, perm_vars, store_vars, role_vars>>

Expire ==
    /\ session' = expire(session, now)
    /\ last_call' = Call("expire", session, "ok")
    /\ UNCHANGED <<now, stop_called, coord_vars, authz_vars, race_vars, ttl_vars, perm_vars, store_vars, role_vars>>

Validate ==
    /\ session' = validate(session, now).session
    /\ last_call' = Call("validate", session, validate(session, now).outcome)
    /\ UNCHANGED <<now, stop_called, coord_vars, authz_vars, race_vars, ttl_vars, perm_vars, store_vars, role_vars>>

\* the idle_timeout property setter
SetIdleTimeout ==
    \E v \in Timeouts :
       /\ session' = [session EXCEPT !.idle_timeout = v]
       /\ last_call' = Call("idle_timeout", session, "ok")
       /\ UNCHANGED <<now, stop_called, coord_vars, authz_vars, race_vars, ttl_vars, perm_vars, store_vars, role_vars>>

\* the absolute_timeout property setter
SetAbsoluteTimeout ==
    \E v \in Timeouts :
       /\ session' = [session EXCEPT !.absolute_timeout = v]
       /\ last_call' = Call("absolute_timeout", session, "ok")
       /\ UNCHANGED <<now, stop_called, coord_vars, authz_vars, race_vars, ttl_vars, perm_vars, store_vars, role_vars>>

NextState ==
    \/ Tick
    \/ Touch
    \/ Stop
    \/ Expire
    \/ Validate
    \/ SetIdleTimeout
    \/ SetAbsoluteTimeout

SpecState == InitState /\ [][NextState]_vars

---------------------------------------------------------------------------
(* The cache handler: a key-value store that holds copies, domain         *)
(* 'session'. sessions maps a session id to a SimpleSession, keys maps a  *)
(* primary identifier to the session id of a DefaultSessionKey.           *)

\* cache_handler.set(domain, identifier, value)
MapSet(f, k, v) == [x \in (DOMAIN f) \cup {k} |-> IF x = k THEN v ELSE f[x]]

\* cache_handler.delete(domain, identifier)
MapDelete(f, k) == [x \in (DOMAIN f) \ {k} |-> f[x]]

EmptyCache == [sessions |-> <<>>, keys |-> <<>>]

---------------------------------------------------------------------------
(* CachingSessionStore *)

_cache(c, s, session_id) ==
    [c EXCEPT !.sessions = MapSet(@, session_id, s)]

\* identifiers.primary_identifier on an unset attribute is the AttributeError
\* the method swallows
_cache_identifiers_to_key_map(c, s, session_id) ==
    IF s.identifiers = NoIdentifiers
    THEN c
    ELSE [c EXCEPT !.keys = MapSet(@, s.identifiers, session_id)]

_uncache(c, s) ==
    LET c1 == [c EXCEPT !.sessions = MapDelete(@, s.session_id)] IN
    IF s.identifiers = NoIdentifiers
    THEN c1
    ELSE [c1 EXCEPT !.keys = MapDelete(@, s.identifiers)]

\* a mutant of store_update: the session is written whether valid or not
store_update_unconditional(c, s, update_identifiers_map) ==
    IF update_identifiers_map
    THEN _cache_identifiers_to_key_map(_cache(c, s, s.session_id), s,
                                       s.session_id)
    ELSE _cache(c, s, s.session_id)

\* a mutant of store_update: an invalid session is left in the cache
store_update_keeps_invalid(c, s, update_identifiers_map) ==
    IF is_valid(s)
    THEN LET c1 == _cache(c, s, s.session_id) IN
         IF update_identifiers_map
         THEN _cache_identifiers_to_key_map(c1, s, s.session_id)
         ELSE c1
    ELSE c

\* CachingSessionStore.update
store_update(c, s, update_identifiers_map) ==
    IF is_valid(s)
    THEN LET c1 == _cache(c, s, s.session_id) IN
         IF update_identifiers_map
         THEN _cache_identifiers_to_key_map(c1, s, s.session_id)
         ELSE c1
    ELSE _uncache(c, s)

\* CachingSessionStore.delete
store_delete(c, s) == _uncache(c, s)

\* CachingSessionStore.create with the id the generator returned:
\* assign_session_id raises for the id None, before anything is cached
store_create(c, s, session_id) ==
    IF session_id = None
    THEN [session |-> s, cache |-> c, outcome |-> "InvalidArgumentException"]
    ELSE LET s1 == [s EXCEPT !.session_id = session_id] IN
         [session |-> s1,
          cache   |-> _cache_identifiers_to_key_map(_cache(c, s1, session_id),
                                                    s1, session_id),
          outcome |-> "ok"]

---------------------------------------------------------------------------
(* SessionEventHandler and DefaultNativeSessionHandler. h is the handler's *)
(* settings, c the cache, s the session object the call works on (a copy  *)
(* of the cached one), t the time, bus the state of the event bus  *)
(* during the call.     Each operator gives the cache and the session     *)
(* afterwards, the events handed to the bus, and "ok" or the exception.   *)

\* SessionEventHandler.notify_start / notify_stop / notify_expiration.
\* bus is the event bus at the time of the call: "none" when no event bus is
\* set (self.event_bus.publish is then an AttributeError, raised as
\* SessionEventException), "raises" when publish itself raises (the error
\* passes through), "ok" otherwise. cached records whether the session's entry
\* is in the cache at the moment of the publish.
notify(topic, identifiers, session_key, c, bus) ==
    [events  |-> IF bus # "none"
                 THEN << [topic       |-> topic,
                          identifiers |-> identifiers,
                          session_key |-> session_key,
                          cached      |-> session_key \in DOMAIN c.sessions] >>
                 ELSE << >>,
     outcome |-> IF bus = "none" THEN "SessionEventException"
                 ELSE IF bus = "raises" THEN "EventBusError"
                 ELSE "ok"]

on_change(h, c, s, t, update_identifiers_map) ==
    LET s1 == IF h.auto_touch /\ ~is_stopped(s) THEN touch(s, t) ELSE s IN
    [session |-> s1, cache |-> store_update(c, s1, update_identifiers_map)]

on_stop(h, c, s, t) ==
    on_change(h, c, [s EXCEPT !.last_access_time = s.stop_timestamp], t, FALSE)

after_stopped(h, c, s) ==
    IF h.delete_invalid_sessions THEN store_delete(c, s) ELSE c

after_expired(h, c, s) ==
    IF h.delete_invalid_sessions THEN store_delete(c, s) ELSE c

\* a call's result r with the session and cache that on_change left in ch
changed(r, ch) == [r EXCEPT !.session = ch.session, !.cache = ch.cache]

\* on_expiration once its on_change has given ch: notify_expiration, and
\* after_expired in the finally clause
on_expiration_changed(h, ch, session_key, bus) ==
    LET pub == notify("SESSION.EXPIRE", ch.session.identifiers, session_key,
                      ch.cache, bus)
    IN [session |-> ch.session,
        cache   |-> after_expired(h, ch.cache, ch.session),
        events  |-> pub.events,
        outcome |-> IF pub.outcome = "ok" THEN "ExpiredSessionException"
                    ELSE pub.outcome]

\* on_expiration(session, ese, session_key); validate re-raises ese after it
on_expiration(h, c, s, session_key, t, bus) ==
    on_expiration_changed(h, on_change(h, c, s, t, FALSE), session_key, bus)

\* on_invalidation once its on_stop has given ch: notify_stop, and
\* after_stopped in the finally clause
on_invalidation_changed(h, ch, session_key, bus) ==
    LET pub == notify("SESSION.STOP", ch.session.identifiers, session_key,
                      ch.cache, bus)
    IN [session |-> ch.session,
        cache   |-> after_stopped(h, ch.cache, ch.session),
        events  |-> pub.events,
        outcome |-> IF pub.outcome = "ok" THEN "StoppedSessionException"
                    ELSE pub.outcome]

\* on_invalidation(session, ise, session_key) for a StoppedSessionException
on_invalidation(h, c, s, session_key, t, bus) ==
    on_invalidation_changed(h, on_stop(h, c, s, t), session_key, bus)

\* the except clauses of DefaultNativeSessionHandler.validate, for what
\* session.validate() gave in v
handler_validate_raised(h, c, v, session_key, t, bus) ==
    IF v.outcome = "AttributeError"
    THEN [session |-> v.session, cache |-> c, events |-> << >>,
          outcome |-> "IllegalStateException"]
    ELSE IF v.outcome = "ExpiredSessionException"
    THEN on_expiration(h, c, v.session, session_key, t, bus)
    ELSE IF v.outcome = "StoppedSessionException"
    THEN on_invalidation(h, c, v.session, session_key, t, bus)
    ELSE [session |-> v.session, cache |-> c, events |-> << >>,
          outcome |-> v.outcome]

\* DefaultNativeSessionHandler.validate(session, session_key)
handler_validate(h, c, s, session_key, t, bus) ==
    handler_validate_raised(h, c, validate(s, t), session_key, t, bus)

\* a mutant of do_get_session: a session found valid is never touched
do_get_session_untouched(h, r, t) == r

\* do_get_session after validate gave r: touch and on_change under auto_touch
do_get_session_validated(h, r, t) ==
    IF r.outcome = "ok" /\ h.auto_touch
    THEN changed(r, on_change(h, r.cache, touch(r.session, t), t, FALSE))
    ELSE r

\* do_get_session for a key whose session id is in the cache
do_get_session(h, c, session_key, t, bus) ==
    do_get_session_validated(
        h, handler_validate(h, c, c.sessions[session_key], session_key, t, bus),
        t)

---------------------------------------------------------------------------
(* DefaultNativeSessionManager. Each operator gives the cache afterwards, *)
(* the session object the call worked on, the events handed to the bus    *)
(* and "ok" or the exception raised. An operator named ..._found is the   *)
(* method from the point where _lookup_required_session has given l.      *)

\* a mutant of _lookup_required_session: a key the store has no session
\* under gives a new session with that id
_lookup_required_session_lenient(h, c, session_key, t, bus) ==
    IF session_key \notin DOMAIN c.sessions
    THEN [session |-> [SimpleSession(t, None, None) EXCEPT
                          !.session_id = session_key],
          cache |-> c, events |-> << >>, outcome |-> "ok"]
    ELSE do_get_session(h, c, session_key, t, bus)

\* _lookup_required_session(key): _retrieve_session raises
\* UnknownSessionException when the store has no session under the id
_lookup_required_session(h, c, session_key, t, bus) ==
    IF session_key \notin DOMAIN c.sessions
    THEN [session |-> SimpleSession(0, None, None), cache |-> c,
          events |-> << >>, outcome |-> "UnknownSessionException"]
    ELSE do_get_session(h, c, session_key, t, bus)

\* stop once session.stop() and on_stop have given ch: notify_stop with the
\* session's identifiers or else the caller's, and after_stopped in the
\* finally clause
manager_stop_stopped(h, ch, session_key, identifiers, bus) ==
    LET pub == notify("SESSION.STOP",
                      IF ch.session.identifiers # NoIdentifiers
                      THEN ch.session.identifiers
                      ELSE identifiers,
                      session_key, ch.cache, bus)
    IN [session |-> ch.session,
        cache   |-> after_stopped(h, ch.cache, ch.session),
        events  |-> pub.events,
        outcome |-> pub.outcome]

manager_stop_found(h, l, session_key, identifiers, t, bus) ==
    IF l.outcome # "ok" THEN l
    ELSE manager_stop_stopped(h, on_stop(h, l.cache, stop(l.session, t), t),
                              session_key, identifiers, bus)

\* DefaultNativeSessionManager.stop(session_key, identifiers)
manager_stop(h, c, session_key, identifiers, t, bus) ==
    manager_stop_found(h, _lookup_required_session(h, c, session_key, t, bus),
                       session_key, identifiers, t, bus)

\* start once the store's create has given cr: _create_session raises
\* SessionCreationException for an id that is falsy, and notify_start
\* follows otherwise
manager_start_created(cr, session_id, bus) ==
    IF cr.outcome # "ok"
    THEN [session |-> cr.session, cache |-> cr.cache, events |-> << >>,
          outcome |-> cr.outcome]
    ELSE IF ~IdTruthy(session_id)
    THEN [session |-> cr.session, cache |-> cr.cache, events |-> << >>,
          outcome |-> "SessionCreationException"]
    ELSE LET pub == notify("SESSION.START", NoIdentifiers, session_id,
                           cr.cache, bus)
         IN [session |-> cr.session, cache |-> cr.cache,
             events |-> pub.events, outcome |-> pub.outcome]

\* DefaultNativeSessionManager.start: _create_session, then notify_start
manager_start(h, c, session_id, t, bus) ==
    manager_start_created(
        store_create(c, SimpleSession(t, h.absolute_timeout, h.idle_timeout),
                     session_id),
        session_id, bus)

set_idle_timeout_found(h, l, idle_time, t) ==
    IF l.outcome # "ok" THEN l
    ELSE changed(l, on_change(h, l.cache,
                              [l.session EXCEPT !.idle_timeout = idle_time],
                              t, FALSE))

\* set_idle_timeout(session_key, idle_time)
set_idle_timeout(h, c, session_key, idle_time, t, bus) ==
    set_idle_timeout_found(
        h, _lookup_required_session(h, c, session_key, t, bus), idle_time, t)

set_absolute_timeout_found(h, l, absolute_time, t) ==
    IF l.outcome # "ok" THEN l
    ELSE changed(l, on_change(h, l.cache,
                              [l.session EXCEPT
                                  !.absolute_timeout = absolute_time],
                              t, FALSE))

\* set_absolute_timeout(session_key, absolute_time)
set_absolute_timeout(h, c, session_key, absolute_time, t, bus) ==
    set_absolute_timeout_found(
        h, _lookup_required_session(h, c, session_key, t, bus),
        absolute_time, t)

manager_touch_found(h, l, t) ==
    IF l.outcome # "ok" THEN l
    ELSE changed(l, on_change(h, l.cache, touch(l.session, t), t, FALSE))

\* DefaultNativeSessionManager.touch(session_key)
manager_touch(h, c, session_key, t, bus) ==
    manager_touch_found(
        h, _lookup_required_session(h, c, session_key, t, bus), t)

set_internal_attribute_found(h, l, value, t) ==
    IF l.outcome # "ok" THEN l
    ELSE changed(l, on_change(h, l.cache,
                              [l.session EXCEPT !.identifiers = value],
                              t, TRUE))

\* set_internal_attribute(session_key, 'identifiers_session_key', value)
\* with value an identifier collection whose primary identifier is value
set_internal_attribute(h, c, session_key, value, t, bus) ==
    set_internal_attribute_found(
        h, _lookup_required_session(h, c, session_key, t, bus), value, t)

\* on_change only when an attribute was removed
remove_internal_attribute_found(h, l, t) ==
    IF l.outcome # "ok" \/ l.session.identifiers = NoIdentifiers THEN l
    ELSE changed(l, on_change(h, l.cache,
                              [l.session EXCEPT !.identifiers = NoIdentifiers],
                              t, FALSE))

\* remove_internal_attribute(session_key, 'identifiers_session_key')
remove_internal_attribute(h, c, session_key, t, bus) ==
    remove_internal_attribute_found(
        h, _lookup_required_session(h, c, session_key, t, bus), t)

\* set_internal_attribute(session_key, k, value) for a key k other than
\* 'identifiers_session_key' and a value that is not None: on_change is
\* called with update_identifiers_map=True whatever the key is
set_other_internal_attribute_found(h, l, value, t) ==
    IF l.outcome # "ok" THEN l
    ELSE changed(l, on_change(h, l.cache,
                              [l.session EXCEPT !.internal_attribute = value],
                              t, TRUE))

set_other_internal_attribute(h, c, session_key, value, t, bus) ==
    set_other_internal_attribute_found(
        h, _lookup_required_session(h, c, session_key, t, bus), value, t)

\* set_attribute(session_key, k, value) for a value that is not None
set_attribute_found(h, l, value, t) ==
    IF l.outcome # "ok" THEN l
    ELSE changed(l, on_change(h, l.cache,
                              [l.session EXCEPT !.attribute = value],
                              t, FALSE))

set_attribute(h, c, session_key, value, t, bus) ==
    set_attribute_found(
        h, _lookup_required_session(h, c, session_key, t, bus), value, t)

\* remove_attribute(session_key, k): on_change only when k was set
remove_attribute_found(h, l, t) ==
    IF l.outcome # "ok" \/ l.session.attribute = Unset THEN l
    ELSE changed(l, on_change(h, l.cache,
                              [l.session EXCEPT !.attribute = Unset],
                              t, FALSE))

remove_attribute(h, c, session_key, t, bus) ==
    remove_attribute_found(
        h, _lookup_required_session(h, c, session_key, t, bus), t)

---------------------------------------------------------------------------
(* SpecCoord: the session manager over the cache, one call at a time, for  *)
(* the sessions of one principal that follow one another: a session is    *)
(* started when the cache holds none                                       *)

\* at most MaxSessions sessions are created
MaxSessions == 2
\* the clock of SpecCoord runs from 0 to MaxCoordTime
MaxCoordTime == 3

SessionIds == 1..MaxSessions
Principals == {"p1"}
EventBusStates == {"ok", "none", "raises"}
\* the values attributes are set to
AttributeValues == {"v"}
\* the values the timeout mutators are called with
IdleTimeouts == {None, 1}
AbsoluteTimeouts == {None, MaxTimeout}

\* the session keys callers hold: those of the cached sessions, that of
\* the session started last, in the cache or no longer, and one that no
\* session was started with
Keys == (DOMAIN cache.sessions) \cup {k \in {next_id - 1, next_id} : k >= 1}

\* the cached session a call found under its key, for the call's record
Found(c, session_key) ==
    IF session_key \in DOMAIN c.sessions
    THEN c.sessions[session_key]
    ELSE SimpleSession(0, None, None)

CoordCall(op, session_key, r) ==
    [op      |-> op,
     key     |-> session_key,
     found   |-> session_key \in DOMAIN cache.sessions,
     pre     |-> Found(cache, session_key),
     cache   |-> cache,
     events  |-> r.events,
     outcome |-> r.outcome]

StateIdle ==
    /\ session = SimpleSession(0, None, None)
    /\ stop_called = FALSE
    /\ last_call = NoCall

\* the states of the event bus a call on session_key is made under: a call
\* with a key the store has no session under ends before it notifies
BusStates(session_key) == IF session_key \in DOMAIN cache.sessions THEN EventBusStates ELSE {"ok"}

InitCoord ==
    /\ now = 0
    /\ cache = EmptyCache
    /\ next_id = 1
    /\ \E at \in BOOLEAN, del \in BOOLEAN :
          handler = [auto_touch |-> at, delete_invalid_sessions |-> del,
                     absolute_timeout |-> MaxTimeout, idle_timeout |-> 1]
    /\ coord_call = [op |-> "none"]
    /\ StateIdle
    /\ AuthzIdle
    /\ RaceIdle
    /\ TtlIdle
    /\ PermIdle
    /\ StoreIdle
    /\ RoleIdle

\* the result r of a call takes effect
Returns(op, session_key, r) ==
    /\ cache' = r.cache
    /\ coord_call' = CoordCall(op, session_key, r)

CoordTick ==
    /\ now < MaxCoordTime
    /\ now' = now + 1
    /\ coord_call' = [op |-> "none"]
    /\ UNCHANGED <<cache, next_id, handler, state_vars, authz_vars, race_vars, ttl_vars, perm_vars, store_vars, role_vars>>

Start ==
    \E bus \in EventBusStates :
       /\ next_id \in SessionIds
       /\ DOMAIN cache.sessions = {}
       /\ next_id' = next_id + 1
       /\ Returns("start", next_id,
                  manager_start(handler, cache, next_id, now, bus))
       /\ UNCHANGED <<now, handler, state_vars, authz_vars, race_vars, ttl_vars, perm_vars, store_vars, role_vars>>

GetSession ==
    \E key \in Keys : \E bus \in BusStates(key) :
       /\ Returns("get_session", key,
                  _lookup_required_session(handler, cache, key, now, bus))
       /\ UNCHANGED <<now, next_id, handler, state_vars, authz_vars, race_vars, ttl_vars, perm_vars, store_vars, role_vars>>

StopSession ==
    \E key \in Keys : \E identifiers \in Principals \cup {NoIdentifiers},
       bus \in BusStates(key) :
       /\ Returns("stop", key,
                  manager_stop(handler, cache, key, identifiers, now, bus))
       /\ UNCHANGED <<now, next_id, handler, state_vars, authz_vars, race_vars, ttl_vars, perm_vars, store_vars, role_vars>>

TouchSession ==
    \E key \in Keys : \E bus \in BusStates(key) :
       /\ Returns("touch", key,
                  manager_touch(handler, cache, key, now, bus))
       /\ UNCHANGED <<now, next_id, handler, state_vars, authz_vars, race_vars, ttl_vars, perm_vars, store_vars, role_vars>>

SetSessionIdleTimeout ==
    \E key \in Keys : \E v \in IdleTimeouts, bus \in BusStates(key) :
       /\ Returns("set_idle_timeout", key,
                  set_idle_timeout(handler, cache, key, v, now, bus))
       /\ UNCHANGED <<now, next_id, handler, state_vars, authz_vars, race_vars, ttl_vars, perm_vars, store_vars, role_vars>>

SetSessionAbsoluteTimeout ==
    \E key \in Keys : \E v \in AbsoluteTimeouts, bus \in BusStates(key) :
       /\ Returns("set_absolute_timeout", key,
                  set_absolute_timeout(handler, cache, key, v, now, bus))
       /\ UNCHANGED <<now, next_id, handler, state_vars, authz_vars, race_vars, ttl_vars, perm_vars, store_vars, role_vars>>

SetIdentifiers ==
    \E key \in Keys : \E p \in Principals, bus \in BusStates(key) :
       /\ Returns("set_internal_attribute", key,
                  set_internal_attribute(handler, cache, key, p, now, bus))
       /\ UNCHANGED <<now, next_id, handler, state_vars, authz_vars, race_vars, ttl_vars, perm_vars, store_vars, role_vars>>

RemoveIdentifiers ==
    \E key \in Keys : \E bus \in BusStates(key) :
       /\ Returns("remove_internal_attribute", key,
                  remove_internal_attribute(handler, cache, key, now, bus))
       /\ UNCHANGED <<now, next_id, handler, state_vars, authz_vars, race_vars, ttl_vars, perm_vars, store_vars, role_vars>>

\* the attribute mutators called with a key the store has no session
\* under, the event bus working
UnknownKeys == Keys \ DOMAIN cache.sessions

SetAttributeUnknown ==
    \E key \in UnknownKeys, value \in AttributeValues :
       /\ Returns("set_attribute", key,
                  set_attribute(handler, cache, key, value, now, "ok"))
       /\ UNCHANGED <<now, next_id, handler, state_vars, authz_vars, race_vars, ttl_vars, perm_vars, store_vars, role_vars>>

RemoveAttributeUnknown ==
    \E key \in UnknownKeys :
       /\ Returns("remove_attribute", key,
                  remove_attribute(handler, cache, key, now, "ok"))
       /\ UNCHANGED <<now, next_id, handler, state_vars, authz_vars, race_vars, ttl_vars, perm_vars, store_vars, role_vars>>

SetOtherInternalAttributeUnknown ==
    \E key \in UnknownKeys, value \in AttributeValues :
       /\ Returns("set_other_internal_attribute", key,
                  set_other_internal_attribute(handler, cache, key, value,
                                               now, "ok"))
       /\ UNCHANGED <<now, next_id, handler, state_vars, authz_vars, race_vars, ttl_vars, perm_vars, store_vars, role_vars>>

NextCoord ==
    \/ CoordTick
    \/ Start
    \/ GetSession
    \/ StopSession
    \/ TouchSession
    \/ SetSessionIdleTimeout
    \/ SetSessionAbsoluteTimeout
    \/ SetIdentifiers
    \/ RemoveIdentifiers
    \/ SetAttributeUnknown
    \/ RemoveAttributeUnknown
    \/ SetOtherInternalAttributeUnknown

SpecCoord == InitCoord /\ [][NextCoord]_vars

---------------------------------------------------------------------------
(* ModularRealmAuthorizer. rs is the _realms attribute, bus the _event_bus *)
(* attribute, permission_s / roleid_s the requested items, answers the    *)
(* decisions each realm holds for the identifiers of the call. Each       *)
(* method gives "ok" or the exception raised, the frozenset or Boolean it *)
(* returns, and the events it handed to the bus.                          *)

\* the realm objects a caller can pass: AuthorizingRealm instances and others
AuthorizingRealms == {"r1", "r2"}
OtherRealms == {"x"}
AllRealms == AuthorizingRealms \cup OtherRealms

\* permissions or role identifiers, and the order a realm goes through them
Items == {"a", "b"}
ItemOrder == <<"a", "b">>
LogicalOperators == {"all", "any"}

IsAuthorizingRealm(realm) == realm \in AuthorizingRealms

\* the listeners register_cache_clear_listener subscribes
CacheClearListeners ==
    {<<"session_clears_cache", "SESSION.STOP">>,
     <<"session_clears_cache", "SESSION.EXPIRE">>,
     <<"authc_clears_cache", "AUTHENTICATION.SUCCEEDED">>}

register_cache_clear_listener(bus) ==
    IF bus.is_none THEN bus
    ELSE [bus EXCEPT !.listeners = @ \cup CacheClearListeners]

\* the realms setter keeps the AuthorizingRealm instances, in order
realms_setter(given) ==
    [is_none |-> FALSE, tuple |-> SelectSeq(given, IsAuthorizingRealm)]

\* a mutant of assert_realms_configured: only an unset attribute is refused
assert_realms_configured_unset_only(rs) ==
    IF rs.is_none THEN "IllegalStateException" ELSE "ok"

\* assert_realms_configured: 'not self.realms' holds for None and for ()
assert_realms_configured(rs) ==
    IF rs.is_none \/ Len(rs.tuple) = 0 THEN "IllegalStateException" ELSE "ok"

\* a method that raised: no value returned, no event published
Raised(exception) ==
    [outcome |-> exception, results |-> {}, granted |-> "none",
     events |-> << >>]

\* realm.is_permitted(identifiers, permission_s) and realm.has_role(
\* identifiers, roleid_s): the (item, Boolean) pairs a realm yields, for the
\* requested items the realm has a decision about
realm_yields(answer, item_s) ==
    LET reported == SelectSeq(ItemOrder,
                              LAMBDA i : i \in item_s /\ i \in DOMAIN answer)
    IN [k \in 1..Len(reported) |-> <<reported[k], answer[reported[k]]>>]

RECURSIVE _has_role(_, _, _)
_has_role(realm_s, answers, roleid_s) ==
    IF realm_s = << >> THEN << >>
    ELSE realm_yields(answers[Head(realm_s)], roleid_s)
             \o _has_role(Tail(realm_s), answers, roleid_s)

RECURSIVE _is_permitted(_, _, _)
_is_permitted(realm_s, answers, permission_s) ==
    IF realm_s = << >> THEN << >>
    ELSE realm_yields(answers[Head(realm_s)], permission_s)
             \o _is_permitted(Tail(realm_s), answers, permission_s)

\* results[item] = results[item] or decision, over a defaultdict(bool)
or_assign(results, item, decision) ==
    MapSet(results, item,
           (IF item \in DOMAIN results THEN results[item] ELSE FALSE)
               \/ decision)

\* the for loop of is_permitted and of has_role over the yielded pairs
RECURSIVE or_merge(_, _)
or_merge(results, pairs) ==
    IF pairs = << >> THEN results
    ELSE or_merge(or_assign(results, Head(pairs)[1], Head(pairs)[2]),
                  Tail(pairs))

\* frozenset(results.items())
items_of(results) == {<<i, results[i]>> : i \in DOMAIN results}

\* notify_results: publish on an unset event bus is the AttributeError that
\* is raised as AuthorizationEventException
notify_results(bus, items) ==
    IF bus.is_none
    THEN [events |-> << >>, outcome |-> "AuthorizationEventException"]
    ELSE [events |-> << [topic |-> "AUTHORIZATION.RESULTS", items |-> items,
                         logical_operator |-> "none"] >>,
          outcome |-> "ok"]

notify_success(bus, items, logical_operator) ==
    IF bus.is_none
    THEN [events |-> << >>, outcome |-> "AuthorizationEventException"]
    ELSE [events |-> << [topic |-> "AUTHORIZATION.GRANTED", items |-> items,
                         logical_operator |-> logical_operator] >>,
          outcome |-> "ok"]

notify_failure(bus, items, logical_operator) ==
    IF bus.is_none
    THEN [events |-> << >>, outcome |-> "AuthorizationEventException"]
    ELSE [events |-> << [topic |-> "AUTHORIZATION.DENIED", items |-> items,
                         logical_operator |-> logical_operator] >>,
          outcome |-> "ok"]

\* a mutant of apply_operator: any(...) whatever the operator
apply_operator_any_only(logical_operator, interim_results) ==
    \E p \in interim_results : p[2]

\* what a realm's clear_cached_authorization_info does when called: it
\* returns, raises AttributeError, or raises another exception
ClearOutcomes == {"ok", "AttributeError", "Error"}

\* a mutant of clear_realms: only the first realm is cleared
RECURSIVE clear_realms_first_only(_, _, _)
clear_realms_first_only(realm_s, identifier, outcomes) ==
    IF realm_s = << >>
    THEN [invoked |-> << >>, outcome |-> "ok"]
    ELSE [invoked |-> << <<Head(realm_s), identifier>> >>,
          outcome |-> outcomes[Head(realm_s)]]

\* a result r of the loop with one more invocation before it
invoked_first(call, r) == [r EXCEPT !.invoked = <<call>> \o @]

\* 'for realm in self.realms: realm.clear_cached_authorization_info(
\* identifier)': the invocations made, and "ok" or the exception that ended
\* the loop
RECURSIVE clear_realms(_, _, _)
clear_realms(realm_s, identifier, outcomes) ==
    IF realm_s = << >>
    THEN [invoked |-> << >>, outcome |-> "ok"]
    ELSE IF outcomes[Head(realm_s)] # "ok"
    THEN [invoked |-> << <<Head(realm_s), identifier>> >>,
          outcome |-> outcomes[Head(realm_s)]]
    ELSE invoked_first(<<Head(realm_s), identifier>>,
                       clear_realms(Tail(realm_s), identifier, outcomes))

\* the 'except AttributeError' clause of the listeners: logged, not raised
except_attribute_error(r) ==
    IF r.outcome = "AttributeError" THEN [r EXCEPT !.outcome = "ok"] ELSE r

\* session_clears_cache(items): items.identifiers.primary_identifier is an
\* AttributeError when the tuple carries no identifiers
session_clears_cache(rs, items, outcomes) ==
    IF items.identifiers = NoIdentifiers
    THEN [invoked |-> << >>, outcome |-> "ok"]
    ELSE except_attribute_error(
             clear_realms(rs.tuple, items.identifiers, outcomes))

\* authc_clears_cache(identifiers)
authc_clears_cache(rs, identifiers, outcomes) ==
    IF identifiers = NoIdentifiers
    THEN [invoked |-> << >>, outcome |-> "ok"]
    ELSE except_attribute_error(
             clear_realms(rs.tuple, identifiers, outcomes))

\* the keyword argument a listener takes its payload under
ListenerKeyword(listener) ==
    IF listener = "session_clears_cache" THEN "items" ELSE "identifiers"

\* the call of a listener with the payload that carries identifiers
call_listener(listener, rs, identifiers, outcomes) ==
    IF listener = "session_clears_cache"
    THEN session_clears_cache(rs, [identifiers |-> identifiers], outcomes)
    ELSE authc_clears_cache(rs, identifiers, outcomes)

\* what the publisher sees once the listener has given r: its exception
\* when the bus lets listener exceptions through
delivered(r, propagate) ==
    [invoked  |-> r.invoked,
     listener |-> r.outcome,
     outcome  |-> IF propagate THEN r.outcome ELSE "ok"]

\* the bus calls listener with the keyword kw of the publication; a keyword
\* the listener does not take leaves it uncalled, and the publisher with
\* mismatch: the TypeError of the call, or "ok" when the bus drops it
deliver(listener, rs, kw, identifiers, outcomes, mismatch, propagate) ==
    IF ListenerKeyword(listener) # kw
    THEN [invoked |-> << >>, listener |-> "not called", outcome |-> mismatch]
    ELSE delivered(call_listener(listener, rs, identifiers, outcomes),
                   propagate)

\* event_bus.publish(topic, kw=payload) on the bus the authorizer registered
\* its listeners with
bus_publish(bus, rs, topic, kw, identifiers, outcomes, mismatch, propagate) ==
    IF \A l \in bus.listeners : l[2] # topic
    THEN [invoked |-> << >>, listener |-> "none", outcome |-> "ok"]
    ELSE deliver((CHOOSE l \in bus.listeners : l[2] = topic)[1], rs, kw,
                 identifiers, outcomes, mismatch, propagate)

\* DefaultAuthenticator.notify_success once publish has given r: the
\* AttributeError of the call becomes an AuthenticationEventException
notify_success_published(r) ==
    [r EXCEPT !.outcome = IF @ = "AttributeError"
                          THEN "AuthenticationEventException" ELSE @]

\* DefaultAuthenticator.notify_success: publishes the topic with the
\* keyword event; without an event bus the publish is an AttributeError
authc_notify_success(bus_set, bus, rs, identifiers, outcomes, mismatch, propagate) ==
    IF ~bus_set
    THEN [invoked |-> << >>, listener |-> "none",
          outcome |-> "AuthenticationEventException"]
    ELSE notify_success_published(
             bus_publish(bus, rs, "AUTHENTICATION.SUCCEEDED", "event",
                         identifiers, outcomes, mismatch, propagate))

\* DefaultAuthenticator.authenticate_account: result is what
\* do_authenticate_account gives (an account, None or an exception); an
\* account is notified and then returned
authenticate_account(result, bus_set, bus, rs, identifiers, outcomes, mismatch, propagate) ==
    IF result # "account"
    THEN [invoked |-> << >>, listener |-> "none",
          outcome |-> "AuthenticationException"]
    ELSE authc_notify_success(bus_set, bus, rs, identifiers, outcomes,
                              mismatch, propagate)

\* all(...) or any(...) over the Booleans of the interim results
apply_operator(logical_operator, interim_results) ==
    IF logical_operator = "all"
    THEN \A p \in interim_results : p[2]
    ELSE \E p \in interim_results : p[2]

\* is_permitted once the loop has merged results: notify_results when
\* log_results, then the frozenset
is_permitted_merged(bus, results, log_results) ==
    LET pub == IF log_results THEN notify_results(bus, items_of(results))
               ELSE [events |-> << >>, outcome |-> "ok"]
    IN [outcome |-> pub.outcome,
        results |-> IF pub.outcome = "ok" THEN items_of(results) ELSE {},
        granted |-> "none",
        events  |-> pub.events]

\* ModularRealmAuthorizer.is_permitted(identifiers, permission_s, log_results)
is_permitted(rs, bus, answers, permission_s, log_results) ==
    IF assert_realms_configured(rs) # "ok"
    THEN Raised(assert_realms_configured(rs))
    ELSE is_permitted_merged(
             bus, or_merge(<< >>, _is_permitted(rs.tuple, answers,
                                                permission_s)),
             log_results)

\* is_permitted_collective once the operator has given results: notify_success
\* or notify_failure with the requested items, then the Boolean
is_permitted_collective_combined(bus, results, permission_s, logical_operator) ==
    LET pub == IF results
               THEN notify_success(bus, permission_s, logical_operator)
               ELSE notify_failure(bus, permission_s, logical_operator)
    IN [outcome |-> pub.outcome,
        results |-> {},
        granted |-> IF pub.outcome # "ok" THEN "none"
                    ELSE IF results THEN "True" ELSE "False",
        events  |-> pub.events]

\* is_permitted_collective once is_permitted has given interim
is_permitted_collective_interim(bus, interim, permission_s, logical_operator) ==
    IF interim.outcome # "ok" THEN interim
    ELSE is_permitted_collective_combined(
             bus, apply_operator(logical_operator, interim.results),
             permission_s, logical_operator)

\* ModularRealmAuthorizer.is_permitted_collective
is_permitted_collective(rs, bus, answers, permission_s, logical_operator) ==
    IF assert_realms_configured(rs) # "ok"
    THEN Raised(assert_realms_configured(rs))
    ELSE is_permitted_collective_interim(
             bus, is_permitted(rs, bus, answers, permission_s, FALSE),
             permission_s, logical_operator)

\* check_permission once is_permitted_collective has given permitted
check_permission_permitted(permitted) ==
    IF permitted.outcome # "ok" THEN permitted
    ELSE [permitted EXCEPT
             !.outcome = IF permitted.granted = "True" THEN "ok"
                         ELSE "UnauthorizedException",
             !.granted = "none"]

\* ModularRealmAuthorizer.check_permission
check_permission(rs, bus, answers, permission_s, logical_operator) ==
    IF assert_realms_configured(rs) # "ok"
    THEN Raised(assert_realms_configured(rs))
    ELSE check_permission_permitted(
             is_permitted_collective(rs, bus, answers, permission_s,
                                     logical_operator))

\* has_role once the loop has merged results
has_role_merged(bus, results, log_results) ==
    LET pub == IF log_results THEN notify_results(bus, items_of(results))
               ELSE [events |-> << >>, outcome |-> "ok"]
    IN [outcome |-> pub.outcome,
        results |-> IF pub.outcome = "ok" THEN items_of(results) ELSE {},
        granted |-> "none",
        events  |-> pub.events]

\* ModularRealmAuthorizer.has_role(identifiers, roleid_s, log_results)
has_role(rs, bus, answers, roleid_s, log_results) ==
    IF assert_realms_configured(rs) # "ok"
    THEN Raised(assert_realms_configured(rs))
    ELSE has_role_merged(
             bus, or_merge(<< >>, _has_role(rs.tuple, answers, roleid_s)),
             log_results)

\* has_role_collective once the operator has given results
has_role_collective_combined(bus, results, roleid_s, logical_operator) ==
    LET pub == IF results
               THEN notify_success(bus, roleid_s, logical_operator)
               ELSE notify_failure(bus, roleid_s, logical_operator)
    IN [outcome |-> pub.outcome,
        results |-> {},
        granted |-> IF pub.outcome # "ok" THEN "none"
                    ELSE IF results THEN "True" ELSE "False",
        events  |-> pub.events]

\* has_role_collective once has_role has given interim
has_role_collective_interim(bus, interim, roleid_s, logical_operator) ==
    IF interim.outcome # "ok" THEN interim
    ELSE has_role_collective_combined(
             bus, apply_operator(logical_operator, interim.results),
             roleid_s, logical_operator)

\* ModularRealmAuthorizer.has_role_collective
has_role_collective(rs, bus, answers, roleid_s, logical_operator) ==
    IF assert_realms_configured(rs) # "ok"
    THEN Raised(assert_realms_configured(rs))
    ELSE has_role_collective_interim(
             bus, has_role(rs, bus, answers, roleid_s, FALSE),
             roleid_s, logical_operator)

\* check_role once has_role_collective has given has_role_s
check_role_has_role_s(has_role_s) ==
    IF has_role_s.outcome # "ok" THEN has_role_s
    ELSE [has_role_s EXCEPT
             !.outcome = IF has_role_s.granted = "True" THEN "ok"
                         ELSE "UnauthorizedException",
             !.granted = "none"]

\* ModularRealmAuthorizer.check_role
check_role(rs, bus, answers, roleid_s, logical_operator) ==
    IF assert_realms_configured(rs) # "ok"
    THEN Raised(assert_realms_configured(rs))
    ELSE check_role_has_role_s(
             has_role_collective(rs, bus, answers, roleid_s,
                                 logical_operator))

---------------------------------------------------------------------------
(* SpecAuthz: one ModularRealmAuthorizer, its attributes set and its six  *)
(* methods called in any order with any answers of the realms             *)

\* the tuples of distinct realm objects a caller can set
RealmTuples ==
    {given \in UNION {[1..n -> AllRealms] : n \in 0..Cardinality(AllRealms)} :
        \A i, j \in 1..Len(given) : given[i] = given[j] => i = j}

\* the non-empty collections of items a caller asks about
Requests == (SUBSET Items) \ {{}}

\* what one realm may hold about the requested items: a decision for some
\* of them, for all of them or for none
Answers(item_s) == UNION {[D -> BOOLEAN] : D \in SUBSET item_s}

\* the realms of the tuple
RealmsOf(rs) == {rs.tuple[k] : k \in 1..Len(rs.tuple)}

AuthzCall(op, item_s, logical_operator, answers, r) ==
    [op               |-> op,
     requested        |-> item_s,
     logical_operator |-> logical_operator,
     answers          |-> answers,
     outcome          |-> r.outcome,
     results          |-> r.results,
     granted          |-> r.granted,
     events           |-> r.events]

\* calls are made one at a time, each after the attributes were set: the
\* record of a call stands until the next setting of realms or event_bus
Ready == authz_call.op \in {"none", "realms", "event_bus"}

InitAuthz ==
    /\ now = 0
    /\ AuthzIdle
    /\ RaceIdle
    /\ TtlIdle
    /\ PermIdle
    /\ StoreIdle
    /\ RoleIdle
    /\ StateIdle
    /\ CoordIdle

SetRealms ==
    \E given \in RealmTuples :
       /\ realms' = realms_setter(given)
       /\ event_bus' = register_cache_clear_listener(event_bus)
       /\ registered' = (registered \/ ~event_bus.is_none)
       /\ authz_call' = [op |-> "realms"]
       /\ UNCHANGED <<now, state_vars, coord_vars, race_vars, ttl_vars, perm_vars, store_vars, role_vars>>

SetEventBus ==
    \E is_none \in BOOLEAN :
       /\ event_bus' = [event_bus EXCEPT !.is_none = is_none]
       /\ authz_call' = [op |-> "event_bus"]
       /\ UNCHANGED <<now, realms, registered, state_vars, coord_vars, race_vars, ttl_vars, perm_vars, store_vars, role_vars>>

IsPermitted ==
    /\ Ready
    /\ \E permission_s \in Requests :
          \E answers \in [RealmsOf(realms) -> Answers(permission_s)] :
             /\ authz_call' = AuthzCall("is_permitted", permission_s, "none",
                                        answers,
                                        is_permitted(realms, event_bus, answers,
                                                     permission_s, TRUE))
             /\ UNCHANGED <<now, realms, event_bus, registered, state_vars,
                          coord_vars, race_vars, ttl_vars, perm_vars, store_vars, role_vars>>

IsPermittedCollective ==
    /\ Ready
    /\ \E permission_s \in Requests, logical_operator \in LogicalOperators :
          \E answers \in [RealmsOf(realms) -> Answers(permission_s)] :
             /\ authz_call' = AuthzCall("is_permitted_collective", permission_s,
                                        logical_operator, answers,
                                        is_permitted_collective(
                                            realms, event_bus, answers,
                                            permission_s, logical_operator))
             /\ UNCHANGED <<now, realms, event_bus, registered, state_vars,
                          coord_vars, race_vars, ttl_vars, perm_vars, store_vars, role_vars>>

CheckPermission ==
    /\ Ready
    /\ \E permission_s \in Requests, logical_operator \in LogicalOperators :
          \E answers \in [RealmsOf(realms) -> Answers(permission_s)] :
             /\ authz_call' = AuthzCall("check_permission", permission_s,
                                        logical_operator, answers,
                                        check_permission(
                                            realms, event_bus, answers,
                                            permission_s, logical_operator))
             /\ UNCHANGED <<now, realms, event_bus, registered, state_vars,
                          coord_vars, race_vars, ttl_vars, perm_vars, store_vars, role_vars>>

HasRole ==
    /\ Ready
    /\ \E roleid_s \in Requests :
          \E answers \in [RealmsOf(realms) -> Answers(roleid_s)] :
             /\ authz_call' = AuthzCall("has_role", roleid_s, "none", answers,
                                        has_role(realms, event_bus, answers,
                                                 roleid_s, TRUE))
             /\ UNCHANGED <<now, realms, event_bus, registered, state_vars,
                          coord_vars, race_vars, ttl_vars, perm_vars, store_vars, role_vars>>

HasRoleCollective ==
    /\ Ready
    /\ \E roleid_s \in Requests, logical_operator \in LogicalOperators :
          \E answers \in [RealmsOf(realms) -> Answers(roleid_s)] :
             /\ authz_call' = AuthzCall("has_role_collective", roleid_s,
                                        logical_operator, answers,
                                        has_role_collective(
                                            realms, event_bus, answers,
                                            roleid_s, logical_operator))
             /\ UNCHANGED <<now, realms, event_bus, registered, state_vars,
                          coord_vars, race_vars, ttl_vars, perm_vars, store_vars, role_vars>>

CheckRole ==
    /\ Ready
    /\ \E roleid_s \in Requests, logical_operator \in LogicalOperators :
          \E answers \in [RealmsOf(realms) -> Answers(roleid_s)] :
             /\ authz_call' = AuthzCall("check_role", roleid_s, logical_operator,
                                        answers,
                                        check_role(realms, event_bus, answers,
                                                   roleid_s, logical_operator))
             /\ UNCHANGED <<now, realms, event_bus, registered, state_vars,
                          coord_vars, race_vars, ttl_vars, perm_vars, store_vars, role_vars>>

\* the topics of the cache clearing listeners and the keyword their
\* publishers use: the session manager publishes items=session_tuple
ClearTopics == {"SESSION.STOP", "SESSION.EXPIRE", "AUTHENTICATION.SUCCEEDED"}
TopicKeyword(topic) ==
    IF topic = "AUTHENTICATION.SUCCEEDED" THEN "identifiers" ELSE "items"

PublishCall(topic, kw, identifiers, outcomes, r) ==
    [op          |-> "publish",
     topic       |-> topic,
     kw          |-> kw,
     identifiers |-> identifiers,
     outcomes    |-> outcomes,
     invoked     |-> r.invoked,
     listener    |-> r.listener,
     outcome     |-> r.outcome]

\* a publication on the event bus under one of the three topics, with the
\* payload its listener takes
Publish ==
    /\ Ready
    /\ \E topic \in ClearTopics,
          identifiers \in Principals \cup {NoIdentifiers},
          propagate \in BOOLEAN :
          \E outcomes \in [RealmsOf(realms) -> ClearOutcomes] :
             /\ authz_call' = PublishCall(
                    topic, TopicKeyword(topic), identifiers, outcomes,
                    bus_publish(event_bus, realms, topic, TopicKeyword(topic),
                                identifiers, outcomes, "TypeError", propagate))
             /\ UNCHANGED <<now, realms, event_bus, registered, state_vars,
                            coord_vars, race_vars, ttl_vars, perm_vars, store_vars, role_vars>>

\* what do_authenticate_account gives, and what a keyword the listener
\* does not take gives the publisher
AuthenticationResults == {"account", "None", "raises"}
MismatchOutcomes == {"TypeError", "ok"}

AuthenticateCall(result, identifiers, outcomes, r) ==
    [op          |-> "authenticate",
     result      |-> result,
     topic       |-> "AUTHENTICATION.SUCCEEDED",
     kw          |-> "event",
     identifiers |-> identifiers,
     outcomes    |-> outcomes,
     invoked     |-> r.invoked,
     listener    |-> r.listener,
     outcome     |-> r.outcome]

\* authenticate_account of an authenticator that shares the event bus the
\* authorizer registered with; the account, if any, is that of a principal
Authenticate ==
    /\ Ready
    /\ \E result \in AuthenticationResults, identifiers \in Principals,
          bus_set \in BOOLEAN, mismatch \in MismatchOutcomes,
          propagate \in BOOLEAN :
          \E outcomes \in [RealmsOf(realms) -> ClearOutcomes] :
             /\ authz_call' = AuthenticateCall(
                    result, identifiers, outcomes,
                    authenticate_account(result, bus_set, event_bus, realms,
                                         identifiers, outcomes, mismatch,
                                         propagate))
             /\ UNCHANGED <<now, realms, event_bus, registered, state_vars,
                            coord_vars, race_vars, ttl_vars, perm_vars, store_vars, role_vars>>

NextAuthz ==
    \/ Publish
    \/ Authenticate
    \/ SetRealms
    \/ SetEventBus
    \/ IsPermitted
    \/ IsPermittedCollective
    \/ CheckPermission
    \/ HasRole
    \/ HasRoleCollective
    \/ CheckRole

SpecAuthz == InitAuthz /\ [][NextAuthz]_vars

---------------------------------------------------------------------------
(* SpecRace: threads calling the session manager at the same time for one *)
(* session id. A call is the steps of DefaultNativeSessionHandler's       *)
(* do_get_session and of the manager method around it; each thread works  *)
(* on the copy of the session it read from the cache, and other threads'  *)
(* steps and the clock's ticks fall between its steps.                     *)

MaxThreads == 2
\* the clock of SpecRace runs from 0 to MaxRaceTime
MaxRaceTime == 3

Threads == 1..MaxThreads
\* the id of the session the threads' calls are for
RaceKey == 1
RaceOps == {"get_session", "touch", "set_internal_attribute", "stop"}
\* after_stop: the call read the session after a stop call had finished
IdleThread ==
    [pc |-> "idle", op |-> "none", session |-> SimpleSession(0, None, None),
     validated_at |-> None, outcome |-> "none", after_stop |-> FALSE]

\* a session started at 0 with an absolute timeout, and no call in progress
InitRace ==
    /\ now = 0
    /\ next_id = RaceKey + 1
    /\ \E del \in BOOLEAN, idle \in {None, MaxTimeout} :
          /\ handler = [auto_touch |-> TRUE, delete_invalid_sessions |-> del,
                        absolute_timeout |-> MaxTimeout, idle_timeout |-> idle]
          /\ cache = store_create(EmptyCache,
                                  SimpleSession(0, MaxTimeout, idle),
                                  RaceKey).cache
    /\ coord_call = [op |-> "none"]
    /\ threads = [th \in Threads |-> IdleThread]
    /\ serial = NoneCompleted
    /\ StateIdle
    /\ AuthzIdle
    /\ TtlIdle
    /\ PermIdle
    /\ StoreIdle
    /\ RoleIdle

RaceTick ==
    /\ now < MaxRaceTime
    /\ now' = now + 1
    /\ UNCHANGED <<coord_vars, race_vars, state_vars, authz_vars, ttl_vars, perm_vars, store_vars, role_vars>>

\* a call begins: _retrieve_session reads the session from the cache, or
\* raises UnknownSessionException
RaceRetrieve(th) ==
    /\ threads[th].pc = "idle"
    /\ \E op \in RaceOps :
          threads' = [threads EXCEPT ![th] =
              IF RaceKey \in DOMAIN cache.sessions
              THEN [IdleThread EXCEPT !.pc = "retrieved", !.op = op,
                                      !.session = cache.sessions[RaceKey],
                                      !.after_stop = serial.stop_completed]
              ELSE [IdleThread EXCEPT !.pc = "done", !.op = op,
                                      !.outcome = "UnknownSessionException"]]
    /\ UNCHANGED <<now, coord_vars, serial, state_vars, authz_vars, ttl_vars, perm_vars, store_vars, role_vars>>

\* the handler's validate has given r for the thread's copy
RaceValidated(th, r) ==
    /\ cache' = r.cache
    /\ threads' = [threads EXCEPT
           ![th].session = r.session,
           ![th].validated_at = now,
           ![th].pc = IF r.outcome = "ok" THEN "validated" ELSE "done",
           ![th].outcome = IF r.outcome = "ok" THEN "none" ELSE r.outcome]
    /\ serial' = [serial EXCEPT !.stopped =
                      @ \/ r.outcome = "ExpiredSessionException"]

\* do_get_session: self.validate(session, session_key) on the copy
RaceValidate(th) ==
    /\ threads[th].pc = "retrieved"
    /\ RaceValidated(th, handler_validate(handler, cache, threads[th].session,
                                          RaceKey, now, "ok"))
    /\ UNCHANGED <<now, next_id, handler, coord_call, state_vars, authz_vars, ttl_vars, perm_vars, store_vars, role_vars>>

\* the on_change of the thread's copy has given ch
RaceChanged(th, ch, pc, outcome) ==
    /\ cache' = ch.cache
    /\ threads' = [threads EXCEPT ![th].session = ch.session, ![th].pc = pc,
                                  ![th].outcome = outcome]

\* do_get_session: session.touch() and on_change(session), which writes the
\* copy to the cache; get_session returns after it
RaceTouch(th) ==
    /\ threads[th].pc = "validated"
    /\ IF threads[th].op = "get_session"
       THEN RaceChanged(th, on_change(handler, cache,
                                      touch(threads[th].session, now), now,
                                      FALSE), "done", "ok")
       ELSE RaceChanged(th, on_change(handler, cache,
                                      touch(threads[th].session, now), now,
                                      FALSE), "found", "none")
    /\ UNCHANGED <<now, next_id, handler, coord_call, serial, state_vars,
                   authz_vars, ttl_vars, perm_vars, store_vars, role_vars>>

\* the manager method after _lookup_required_session: touch,
\* set_internal_attribute or stop on the copy, and the write of on_change
RaceApply(th) ==
    /\ threads[th].pc = "found"
    /\ \/ /\ threads[th].op = "touch"
          /\ RaceChanged(th, manager_touch_found(
                 handler, [session |-> threads[th].session, cache |-> cache,
                           events |-> << >>, outcome |-> "ok"], now),
                 "done", "ok")
          /\ UNCHANGED serial
       \/ /\ threads[th].op = "set_internal_attribute"
          /\ \E value \in Principals :
                /\ RaceChanged(th, set_internal_attribute_found(
                       handler, [session |-> threads[th].session,
                                 cache |-> cache, events |-> << >>,
                                 outcome |-> "ok"], value, now),
                       "done", "ok")
                /\ serial' = [serial EXCEPT !.identifiers = value]
       \/ /\ threads[th].op = "stop"
          /\ RaceChanged(th, manager_stop_found(
                 handler, [session |-> threads[th].session, cache |-> cache,
                           events |-> << >>, outcome |-> "ok"], RaceKey,
                 NoIdentifiers, now, "ok"),
                 "done", "ok")
          /\ serial' = [serial EXCEPT !.stopped = TRUE,
                                       !.stop_completed = TRUE]
    /\ UNCHANGED <<now, next_id, handler, coord_call, state_vars, authz_vars, ttl_vars, perm_vars, store_vars, role_vars>>

\* the call has returned to its caller
RaceReturn(th) ==
    /\ threads[th].pc = "done"
    /\ threads' = [threads EXCEPT ![th] = IdleThread]
    /\ UNCHANGED <<now, coord_vars, serial, state_vars, authz_vars, ttl_vars, perm_vars, store_vars, role_vars>>

NextRace ==
    \/ RaceTick
    \/ \E th \in Threads : RaceRetrieve(th)
    \/ \E th \in Threads : RaceValidate(th)
    \/ \E th \in Threads : RaceTouch(th)
    \/ \E th \in Threads : RaceApply(th)
    \/ \E th \in Threads : RaceReturn(th)

SpecRace == InitRace /\ [][NextRace]_vars

---------------------------------------------------------------------------
(* SpecTtl: the session manager over a cache store that expires entries:  *)
(* CachingSessionStore passes no expiration of its own to                 *)
(* cache_handler.set, so an entry lives for the store's time to live for  *)
(* the session domain, the absolute timeout, from the moment it was set.  *)

\* the store's time to live for the entries of the session domain
SessionTtl == handler.absolute_timeout

\* the call wrote the session's entry: every on_change of a valid session
\* sets it, and get_session reaches on_change under auto_touch only
Written(op, session_key, r) ==
    /\ r.outcome = "ok"
    /\ op = "get_session" => handler.auto_touch
    /\ session_key \in DOMAIN r.cache.sessions

\* the result r of a call takes effect, and the store notes the set
TtlReturns(op, session_key, r) ==
    /\ Returns(op, session_key, r)
    /\ set_at' = IF Written(op, session_key, r) THEN now
                 ELSE IF session_key \in DOMAIN r.cache.sessions THEN set_at
                 ELSE None

InitTtl ==
    /\ now = 0
    /\ cache = EmptyCache
    /\ next_id = 1
    /\ \E at \in BOOLEAN, del \in BOOLEAN :
          handler = [auto_touch |-> at, delete_invalid_sessions |-> del,
                     absolute_timeout |-> MaxTimeout,
                     idle_timeout |-> MaxTimeout]
    /\ coord_call = [op |-> "none"]
    /\ set_at = None
    /\ StateIdle
    /\ AuthzIdle
    /\ RaceIdle
    /\ PermIdle
    /\ StoreIdle
    /\ RoleIdle

\* the clock advances; the store drops the entry whose time to live is over
TtlTick ==
    /\ now < MaxCoordTime
    /\ now' = now + 1
    /\ coord_call' = [op |-> "none"]
    /\ IF set_at # None /\ now' > set_at + SessionTtl
       THEN /\ cache' = [cache EXCEPT !.sessions = << >>]
            /\ set_at' = None
       ELSE UNCHANGED <<cache, set_at>>
    /\ UNCHANGED <<next_id, handler, state_vars, authz_vars, race_vars, perm_vars, store_vars, role_vars>>

TtlStart ==
    /\ next_id \in SessionIds
    /\ DOMAIN cache.sessions = {}
    /\ TtlReturns("start", next_id,
                  manager_start(handler, cache, next_id, now, "ok"))
    /\ next_id' = next_id + 1
    /\ UNCHANGED <<now, handler, state_vars, authz_vars, race_vars, perm_vars, store_vars, role_vars>>

TtlGetSession ==
    \E session_key \in DOMAIN cache.sessions :
       /\ TtlReturns("get_session", session_key,
                     do_get_session(handler, cache, session_key, now, "ok"))
       /\ UNCHANGED <<now, next_id, handler, state_vars, authz_vars,
                      race_vars, perm_vars, store_vars, role_vars>>

TtlTouch ==
    \E session_key \in DOMAIN cache.sessions :
       /\ TtlReturns("touch", session_key,
                     manager_touch(handler, cache, session_key, now, "ok"))
       /\ UNCHANGED <<now, next_id, handler, state_vars, authz_vars,
                      race_vars, perm_vars, store_vars, role_vars>>

NextTtl ==
    \/ TtlTick
    \/ TtlStart
    \/ TtlGetSession
    \/ TtlTouch

SpecTtl == InitTtl /\ [][NextTtl]_vars

---------------------------------------------------------------------------
(* WildcardPermission. A wildcard string is the sequence of its parts,    *)
(* the text between the colons, and a part the sequence of its subparts,  *)
(* the tokens between the commas.                                          *)

WILDCARD_TOKEN == "*"

\* part_indices: the names of the first three parts
part_indices == <<"domain", "action", "target">>
Levels == {part_indices[k] : k \in DOMAIN part_indices}

\* str.lower() of a token
lower(token) == IF token = "X" THEN "x" ELSE token

\* a mutant of setparts: the levels the string omits are left empty
setparts_omitted_empty(wildcard_string) ==
    [level \in Levels |->
        LET index == CHOOSE k \in DOMAIN part_indices : part_indices[k] = level
        IN IF index <= Len(wildcard_string)
           THEN {lower(wildcard_string[index][sp]) :
                    sp \in DOMAIN wildcard_string[index]}
           ELSE {}]

\* __init__ and setparts for a well formed string, case_sensitive False:
\* every part starts as {'*'}, and each part of the string replaces the one
\* at its index with the set of its subparts
setparts(wildcard_string) ==
    [level \in Levels |->
        LET index == CHOOSE k \in DOMAIN part_indices : part_indices[k] = level
        IN IF index <= Len(wildcard_string)
           THEN {lower(wildcard_string[index][sp]) :
                    sp \in DOMAIN wildcard_string[index]}
           ELSE {WILDCARD_TOKEN}]

\* the parts that are truthy, in the order domain, action, target
truthy_parts(parts) ==
    SelectSeq(<<parts["domain"], parts["action"], parts["target"]>>,
              LAMBDA token : token # {})

\* the second loop of implies: the parts of this permission from index on
\* must all hold the wildcard
RECURSIVE implies_rest(_, _)
implies_rest(myparts, index) ==
    IF index > Len(myparts) - 1 THEN TRUE
    ELSE IF WILDCARD_TOKEN \notin myparts[index + 1] THEN FALSE
    ELSE implies_rest(myparts, index + 1)

\* the first loop of implies, at otherparts[index] (index counts from 0)
RECURSIVE implies_loop(_, _, _)
implies_loop(myparts, otherparts, index) ==
    IF index > Len(otherparts) - 1 THEN implies_rest(myparts, index)
    ELSE IF Len(myparts) - 1 < index THEN TRUE
    ELSE IF /\ WILDCARD_TOKEN \notin myparts[index + 1]
            /\ ~(otherparts[index + 1] \subseteq myparts[index + 1])
    THEN FALSE
    ELSE implies_loop(myparts, otherparts, index + 1)

\* a mutant of implies: a level matches when the two sets of tokens share
\* a token
implies_overlapping(self, permission) ==
    \A level \in Levels :
        \/ WILDCARD_TOKEN \in self[level]
        \/ self[level] \cap permission[level] # {}

\* a mutant of implies: only a permission with the same parts is implied
implies_same_parts(self, permission) == self = permission

\* WildcardPermission.implies(permission), self and permission given by
\* their parts
implies(self, permission) ==
    implies_loop(truthy_parts(self), truthy_parts(permission), 0)

---------------------------------------------------------------------------
(* SpecImplies: two permissions are made from wildcard strings, and the   *)
(* first is asked whether it implies the second                            *)

\* a part has at most MaxSubparts subparts
MaxSubparts == 2

\* the tokens the strings are written with, in the order the subparts of a
\* part are written in
TokenOrder == <<"*", "x", "y", "X">>
DomainTokens == {"*", "x", "y", "X"}
OtherTokens == {"*", "x", "y"}
Position(token) == CHOOSE k \in DOMAIN TokenOrder : TokenOrder[k] = token

\* the parts written with tokens: one to MaxSubparts different subparts
PartsOver(tokens) ==
    {part \in UNION {[1..n -> tokens] : n \in 1..MaxSubparts} :
        \A a, b \in DOMAIN part : a < b => Position(part[a]) < Position(part[b])}

\* the well formed wildcard strings of one, two and three parts
WildcardStrings ==
    {<<d>> : d \in PartsOver(DomainTokens)}
    \cup {<<d, a>> : d \in PartsOver(DomainTokens), a \in PartsOver(OtherTokens)}
    \cup (PartsOver(DomainTokens) \X PartsOver(OtherTokens) \X PartsOver(OtherTokens))

\* granted = WildcardPermission(g), requested = WildcardPermission(r)
InitImplies ==
    /\ now = 0
    /\ \E g \in WildcardStrings, r \in WildcardStrings :
          perm_call = [op |-> "WildcardPermission",
                       wildcard_strings |-> <<g, r>>,
                       granted |-> setparts(g),
                       requested |-> setparts(r),
                       result |-> "none"]
    /\ authz_info = << >>
    /\ inserted = {}
    /\ perm_object = NoPermission
    /\ StateIdle
    /\ CoordIdle
    /\ AuthzIdle
    /\ RaceIdle
    /\ TtlIdle
    /\ StoreIdle
    /\ RoleIdle

\* granted.implies(requested)
Implies ==
    /\ perm_call.op = "WildcardPermission"
    /\ perm_call' = [perm_call EXCEPT
           !.op = "implies",
           !.result = IF implies(perm_call.granted, perm_call.requested)
                      THEN "True" ELSE "False"]
    /\ UNCHANGED <<now, authz_info, inserted, perm_object, state_vars, coord_vars,
                   authz_vars, race_vars, ttl_vars, store_vars, role_vars>>

NextImplies == Implies

SpecImplies == InitImplies /\ [][NextImplies]_vars

---------------------------------------------------------------------------
(* IndexedAuthorizationInfo and IndexedPermissionVerifier. info is the    *)
(* dict _permissions: a function from the domains that have a bucket to   *)
(* the set of permissions of the bucket.                                   *)

\* next(iter(permission.domain))
domain_of(permission) == CHOOSE token \in permission["domain"] : TRUE

\* the permissions property: the union of the buckets
permissions(info) == UNION {info[domain] : domain \in DOMAIN info}

\* assert_permissions_indexed(permission_s) on the index info
assert_permissions_indexed(info, permission_s) ==
    [info    |-> info,
     outcome |-> IF permission_s \subseteq permissions(info) THEN "ok"
                 ELSE "PermissionIndexingException"]

\* a mutant of index_permission: a bucket holds the permissions of the
\* last call only
index_permission_overwrites(info, permission_s) ==
    assert_permissions_indexed(
        [domain \in (DOMAIN info) \cup {domain_of(p) : p \in permission_s} |->
            IF \E p \in permission_s : domain_of(p) = domain
            THEN {p \in permission_s : domain_of(p) = domain}
            ELSE info[domain]],
        permission_s)

\* index_permission(permission_s): each permission is added to the bucket
\* of its domain, a bucket being made when there is none; then the assert
index_permission(info, permission_s) ==
    assert_permissions_indexed(
        [domain \in (DOMAIN info) \cup {domain_of(p) : p \in permission_s} |->
            (IF domain \in DOMAIN info THEN info[domain] ELSE {})
                \cup {p \in permission_s : domain_of(p) = domain}],
        permission_s)

\* add_permission(permission_s)
add_permission(info, permission_s) == index_permission(info, permission_s)

\* the permissions setter: _permissions.clear(), then index_permission
permissions_setter(info, perms) == index_permission(<< >>, perms)

\* get_permission(domain): _permissions.get(domain, set())
get_permission(info, domain) ==
    IF domain \in DOMAIN info THEN info[domain] ELSE {}

\* a mutant of get_authzd_permissions: the bucket of the requested domain
\* only
get_authzd_permissions_domain_only(info, permission) ==
    get_permission(info, domain_of(permission))

\* IndexedPermissionVerifier.get_authzd_permissions(authz_info, permission)
get_authzd_permissions(info, permission) ==
    get_permission(info, WILDCARD_TOKEN)
        \cup get_permission(info, domain_of(permission))

\* IndexedPermissionVerifier.is_permitted for one requested permission:
\* the Boolean it yields with the permission
verifier_is_permitted(info, reqstd_perm) ==
    \E authz_perm \in get_authzd_permissions(info, reqstd_perm) :
       implies(authz_perm, reqstd_perm)

---------------------------------------------------------------------------
(* SpecIndex: one IndexedAuthorizationInfo, permissions of one domain     *)
(* token each indexed, added and replaced in any order, and the index     *)
(* queried                                                                 *)

\* the wildcard strings of the permissions: one domain token, alone or
\* with an action
IndexStrings ==
    {<< <<d>> >> : d \in OtherTokens}
        \cup {<< <<d>>, <<"x">> >> : d \in OtherTokens}
IndexPermissions == {setparts(s) : s \in IndexStrings}
\* the domains get_permission is called with: "z" is in no permission
IndexDomains == OtherTokens \cup {"z"}

IndexCall(op, argument, result, outcome) ==
    [op       |-> op,
     argument |-> argument,
     result   |-> result,
     outcome  |-> outcome,
     buckets  |-> DOMAIN authz_info]

\* IndexedAuthorizationInfo(): no permissions
InitIndex ==
    /\ now = 0
    /\ authz_info = << >>
    /\ inserted = {}
    /\ perm_call = [op |-> "none"]
    /\ perm_object = NoPermission
    /\ StateIdle
    /\ CoordIdle
    /\ AuthzIdle
    /\ RaceIdle
    /\ TtlIdle
    /\ StoreIdle
    /\ RoleIdle

\* the index r.info a call left takes effect
Indexed(op, permission_s, r) ==
    /\ authz_info' = r.info
    /\ perm_call' = IndexCall(op, permission_s, {}, r.outcome)

IndexPermission ==
    \E permission_s \in SUBSET IndexPermissions :
       /\ Indexed("index_permission", permission_s,
                  index_permission(authz_info, permission_s))
       /\ inserted' = inserted \cup permission_s
       /\ UNCHANGED <<now, perm_object, state_vars, coord_vars, authz_vars,
                      race_vars, ttl_vars, store_vars, role_vars>>

AddPermission ==
    \E permission_s \in SUBSET IndexPermissions :
       /\ Indexed("add_permission", permission_s,
                  add_permission(authz_info, permission_s))
       /\ inserted' = inserted \cup permission_s
       /\ UNCHANGED <<now, perm_object, state_vars, coord_vars, authz_vars,
                      race_vars, ttl_vars, store_vars, role_vars>>

SetPermissions ==
    \E perms \in SUBSET IndexPermissions :
       /\ Indexed("permissions", perms,
                  permissions_setter(authz_info, perms))
       /\ inserted' = perms
       /\ UNCHANGED <<now, perm_object, state_vars, coord_vars, authz_vars,
                      race_vars, ttl_vars, store_vars, role_vars>>

GetPermission ==
    \E domain \in IndexDomains :
       /\ perm_call' = IndexCall("get_permission", domain,
                                 get_permission(authz_info, domain), "ok")
       /\ UNCHANGED <<now, authz_info, inserted, perm_object, state_vars, coord_vars,
                      authz_vars, race_vars, ttl_vars, store_vars, role_vars>>

VerifierIsPermitted ==
    \E reqstd_perm \in IndexPermissions :
       /\ perm_call' = IndexCall("is_permitted", reqstd_perm,
                                 verifier_is_permitted(authz_info, reqstd_perm),
                                 "ok")
       /\ UNCHANGED <<now, authz_info, inserted, perm_object, state_vars, coord_vars,
                      authz_vars, race_vars, ttl_vars, store_vars, role_vars>>

NextIndex ==
    \/ IndexPermission
    \/ AddPermission
    \/ SetPermissions
    \/ GetPermission
    \/ VerifierIsPermitted

SpecIndex == InitIndex /\ [][NextIndex]_vars

---------------------------------------------------------------------------
(* WildcardPermission.setparts on any string, and DefaultPermission. The  *)
(* empty string is the string of one part that has one empty subpart;     *)
(* two commas in a row, or a comma at an end, give an empty subpart.      *)

\* the empty string, and None where a string is expected
EmptyString == << <<"">> >>
NoneString == << >>

InvalidArgumentException == "InvalidArgumentException"

\* WildcardPermission.__init__: the parts before setparts
DefaultParts == [level \in Levels |-> {WILDCARD_TOKEN}]

\* not any(x != ':' for x in wildcard_string): nothing but part dividers
just_dividers(wildcard_string) ==
    \A p \in DOMAIN wildcard_string : wildcard_string[p] = <<"">>

\* not any(x != ',' for x in part): nothing but subpart dividers, or nothing
just_subpart_dividers(part) == \A sp \in DOMAIN part : part[sp] = ""

\* the loop of setparts over the parts of the string, at parts[index]
\* (index counts from 0): a part of dividers only raises and leaves the
\* parts set so far; any other part replaces self.parts[myindex] by the set
\* of its subparts
RECURSIVE setparts_loop(_, _, _)
setparts_loop(parts, wildcard_string, index) ==
    IF index > Len(wildcard_string) - 1
    THEN [parts |-> parts, outcome |-> "ok"]
    ELSE IF just_subpart_dividers(wildcard_string[index + 1])
    THEN [parts |-> parts, outcome |-> InvalidArgumentException]
    ELSE setparts_loop(
             [parts EXCEPT ![part_indices[index + 1]] =
                 {lower(wildcard_string[index + 1][sp]) :
                     sp \in DOMAIN wildcard_string[index + 1]}],
             wildcard_string, index + 1)

\* WildcardPermission.setparts(wildcard_string) on an object whose parts
\* are parts: the parts afterwards and "ok" or the exception raised
WildcardPermission_setparts(parts, wildcard_string) ==
    IF wildcard_string = EmptyString
    THEN [parts |-> parts, outcome |-> InvalidArgumentException]
    ELSE IF just_dividers(wildcard_string)
    THEN [parts |-> parts, outcome |-> InvalidArgumentException]
    ELSE setparts_loop(parts, wildcard_string, 0)

\* WildcardPermission.__init__(wildcard_string): setparts is called for a
\* string that is truthy, that is, not empty
WildcardPermission_init(wildcard_string) ==
    IF wildcard_string # NoneString /\ wildcard_string # EmptyString
    THEN WildcardPermission_setparts(DefaultParts, wildcard_string)
    ELSE [parts |-> DefaultParts, outcome |-> "ok"]

\* the arguments of set_parts: None, a string or a set of tokens
NoneArg == [type |-> "None", value |-> << >>]
Str(part) == [type |-> "str", value |-> part]
Set(tokens) == [type |-> "set", value |-> tokens]

\* ','.join(token for token in tokens): the tokens in the order the set
\* gives them, which setparts does not depend on
join(tokens) ==
    IF tokens = {} THEN <<"">>
    ELSE CHOOSE part \in [1..Cardinality(tokens) -> tokens] :
            {part[sp] : sp \in DOMAIN part} = tokens

\* encode_parts: the three strings joined by ':', None written as '*'
encode_parts(domain, action, target) ==
    [index \in 1..3 |->
        LET x == <<domain, action, target>>[index]
        IN IF x.type = "None" THEN <<WILDCARD_TOKEN>> ELSE x.value]

\* set_parts: a set is joined into a string
subpart_string(x) == IF x.type = "set" THEN Str(join(x.value)) ELSE x

\* DefaultPermission.set_parts(domain, action, target) on an object whose
\* parts are parts
set_parts(parts, domain, action, target) ==
    WildcardPermission_setparts(
        parts, encode_parts(subpart_string(domain), subpart_string(action),
                            subpart_string(target)))

\* the object whose parts are parts, _domain, _action and _target read
\* from them
with_attributes(parts) ==
    [parts |-> parts, _domain |-> parts["domain"],
     _action |-> parts["action"], _target |-> parts["target"]]

\* DefaultPermission.__init__ has its parts set: r is what that left
DefaultPermission_parts_set(r) ==
    IF r.outcome # "ok"
    THEN [permission |-> NoPermission, outcome |-> r.outcome]
    ELSE [permission |-> with_attributes(r.parts), outcome |-> "ok"]

\* DefaultPermission(wildcard_string), or DefaultPermission() when
\* wildcard_string is None: the object made and "ok", or the exception
DefaultPermission(wildcard_string) ==
    IF wildcard_string # NoneString
    THEN DefaultPermission_parts_set(WildcardPermission_init(wildcard_string))
    ELSE DefaultPermission_parts_set(
             set_parts(DefaultParts, NoneArg, NoneArg, NoneArg))

\* a property setter after its call of set_parts: an exception leaves the
\* attribute as it was, with the parts set_parts had got to
setter_parts_set(self, r, attribute) ==
    IF r.outcome # "ok"
    THEN [permission |-> [self EXCEPT !.parts = r.parts], outcome |-> r.outcome]
    ELSE [permission |->
             [self EXCEPT !.parts = r.parts,
                          !._domain = IF attribute = "domain"
                                      THEN r.parts["domain"] ELSE @,
                          !._action = IF attribute = "action"
                                      THEN r.parts["action"] ELSE @,
                          !._target = IF attribute = "target"
                                      THEN r.parts["target"] ELSE @],
          outcome |-> "ok"]

\* the domain, action and target property setters
domain_setter(self, domain) ==
    setter_parts_set(
        self, set_parts(self.parts, domain, Set(self._action), Set(self._target)),
        "domain")

action_setter(self, action) ==
    setter_parts_set(
        self, set_parts(self.parts, Set(self._domain), action, Set(self._target)),
        "action")

target_setter(self, target) ==
    setter_parts_set(
        self, set_parts(self.parts, Set(self._domain), Set(self._action), target),
        "target")

\* the string a setter hands to setparts
setter_string(domain, action, target) ==
    encode_parts(subpart_string(domain), subpart_string(action),
                 subpart_string(target))

\* __eq__: the parts are equal
eq(self, other) == self.parts = other.parts

---------------------------------------------------------------------------
(* SpecPermission: one DefaultPermission is made from a string, and its   *)
(* setters are called in any order                                         *)

\* the tokens of the strings: the empty token is what two dividers in a
\* row, or a divider at an end, leave between them
RawTokens == {"", "x", "y"}

\* the parts of one to MaxSubparts subparts, and the strings of one to
\* three parts
RawParts == UNION {[1..n -> RawTokens] : n \in 1..MaxSubparts}
RawStrings ==
    {<<d>> : d \in RawParts} \cup (RawParts \X RawParts)
        \cup (RawParts \X RawParts \X RawParts)

\* the values a setter is given: None or a string
SetterArguments == {NoneArg} \cup {Str(part) : part \in RawParts}

PermissionCall(op, wildcard_string, r) ==
    [op              |-> op,
     wildcard_string |-> wildcard_string,
     pre             |-> perm_object,
     outcome         |-> r.outcome]

InitPermission ==
    /\ now = 0
    /\ authz_info = << >>
    /\ inserted = {}
    /\ perm_call = [op |-> "none"]
    /\ perm_object = NoPermission
    /\ StateIdle
    /\ CoordIdle
    /\ AuthzIdle
    /\ RaceIdle
    /\ TtlIdle
    /\ StoreIdle
    /\ RoleIdle

\* the permission r.permission a call left takes effect
PermissionReturns(op, wildcard_string, r) ==
    /\ perm_object' = r.permission
    /\ perm_call' = PermissionCall(op, wildcard_string, r)
    /\ UNCHANGED <<now, authz_info, inserted, state_vars, coord_vars,
                   authz_vars, race_vars, ttl_vars, store_vars, role_vars>>

NewPermission ==
    /\ perm_object = NoPermission
    /\ \E wildcard_string \in RawStrings \cup {NoneString} :
          PermissionReturns("DefaultPermission", wildcard_string,
                            DefaultPermission(wildcard_string))

\* setparts called on a permission made with no string
Setparts ==
    /\ perm_call.op = "DefaultPermission"
    /\ perm_call.wildcard_string = NoneString
    /\ \E wildcard_string \in RawStrings :
          PermissionReturns(
              "setparts", wildcard_string,
              LET r == WildcardPermission_setparts(perm_object.parts,
                                                   wildcard_string)
              IN [permission |-> [perm_object EXCEPT !.parts = r.parts],
                  outcome |-> r.outcome])

SetDomain ==
    /\ perm_object # NoPermission
    /\ \E domain \in SetterArguments :
          PermissionReturns(
              "domain",
              setter_string(domain, Set(perm_object._action),
                            Set(perm_object._target)),
              domain_setter(perm_object, domain))

SetAction ==
    /\ perm_object # NoPermission
    /\ \E action \in SetterArguments :
          PermissionReturns(
              "action",
              setter_string(Set(perm_object._domain), action,
                            Set(perm_object._target)),
              action_setter(perm_object, action))

SetTarget ==
    /\ perm_object # NoPermission
    /\ \E target \in SetterArguments :
          PermissionReturns(
              "target",
              setter_string(Set(perm_object._domain),
                            Set(perm_object._action), target),
              target_setter(perm_object, target))

NextPermission ==
    \/ NewPermission
    \/ Setparts
    \/ SetDomain
    \/ SetAction
    \/ SetTarget

SpecPermission == InitPermission /\ [][NextPermission]_vars

---------------------------------------------------------------------------
(* SpecTimedOut: is_timed_out asked of a session in any state its setters *)
(* and methods can leave it in, at any instant                             *)

\* the sessions at time t: started at or before t, last accessed since the
\* start or with last_access_time set to None, stopped or expired at t or
\* neither, each timeout None or a duration
SessionsAt(t) ==
    {[session_id       |-> None,
      start_timestamp  |-> start,
      last_access_time |-> last,
      stop_timestamp   |-> IF stopped # "no" THEN t ELSE None,
      absolute_timeout |-> a,
      idle_timeout     |-> i,
      is_expired       |-> (stopped = "expired"),
      identifiers      |-> NoIdentifiers,
      internal_attribute |-> Unset,
      attribute        |-> Unset] :
        start \in 0..t, last \in {None} \cup (0..t),
        stopped \in {"no", "stopped", "expired"},
        a \in Timeouts, i \in Timeouts}

InitTimedOut ==
    /\ now \in Timestamps
    /\ session \in {s \in SessionsAt(now) :
                       s.last_access_time # None
                           => s.start_timestamp <= s.last_access_time}
    /\ stop_called = is_stopped(session)
    /\ last_call = NoCall
    /\ CoordIdle
    /\ AuthzIdle
    /\ RaceIdle
    /\ TtlIdle
    /\ PermIdle
    /\ StoreIdle
    /\ RoleIdle

\* session.is_timed_out() at the time now
IsTimedOut ==
    /\ last_call' = Call("is_timed_out", session, is_timed_out(session, now))
    /\ UNCHANGED <<now, session, stop_called, coord_vars, authz_vars, race_vars, ttl_vars, perm_vars, store_vars, role_vars>>

NextTimedOut == IsTimedOut

SpecTimedOut == InitTimedOut /\ [][NextTimedOut]_vars

---------------------------------------------------------------------------
(* SpecMap: the session manager over the cache, one call at a time, with  *)
(* two sessions of one principal alive together, and their attributes and *)
(* timeouts set, all within one instant of the clock                      *)

\* the ids of the two sessions
MapSessionIds == {1, 2}

InitMap ==
    /\ now = 0
    /\ cache = EmptyCache
    /\ next_id = 1
    /\ \E at \in BOOLEAN :
          handler = [auto_touch |-> at, delete_invalid_sessions |-> TRUE,
                     absolute_timeout |-> MaxTimeout,
                     idle_timeout |-> MaxTimeout]
    /\ coord_call = [op |-> "none"]
    /\ StateIdle
    /\ AuthzIdle
    /\ RaceIdle
    /\ TtlIdle
    /\ PermIdle
    /\ StoreIdle
    /\ RoleIdle

MapStart ==
    /\ next_id \in MapSessionIds
    /\ next_id' = next_id + 1
    /\ Returns("start", next_id,
               manager_start(handler, cache, next_id, now, "ok"))
    /\ UNCHANGED <<now, handler, state_vars, authz_vars, race_vars, ttl_vars, perm_vars, store_vars, role_vars>>

MapSetIdentifiers ==
    \E key \in DOMAIN cache.sessions, p \in Principals :
       /\ Returns("set_internal_attribute", key,
                  set_internal_attribute(handler, cache, key, p, now, "ok"))
       /\ UNCHANGED <<now, next_id, handler, state_vars, authz_vars, race_vars, ttl_vars, perm_vars, store_vars, role_vars>>

MapSetOtherInternalAttribute ==
    \E key \in DOMAIN cache.sessions, value \in AttributeValues :
       /\ Returns("set_other_internal_attribute", key,
                  set_other_internal_attribute(handler, cache, key, value,
                                               now, "ok"))
       /\ UNCHANGED <<now, next_id, handler, state_vars, authz_vars, race_vars, ttl_vars, perm_vars, store_vars, role_vars>>

MapSetAttribute ==
    \E key \in DOMAIN cache.sessions, value \in AttributeValues :
       /\ Returns("set_attribute", key,
                  set_attribute(handler, cache, key, value, now, "ok"))
       /\ UNCHANGED <<now, next_id, handler, state_vars, authz_vars, race_vars, ttl_vars, perm_vars, store_vars, role_vars>>

MapRemoveAttribute ==
    \E key \in DOMAIN cache.sessions :
       /\ Returns("remove_attribute", key,
                  remove_attribute(handler, cache, key, now, "ok"))
       /\ UNCHANGED <<now, next_id, handler, state_vars, authz_vars, race_vars, ttl_vars, perm_vars, store_vars, role_vars>>

MapTouch ==
    \E key \in DOMAIN cache.sessions :
       /\ Returns("touch", key, manager_touch(handler, cache, key, now, "ok"))
       /\ UNCHANGED <<now, next_id, handler, state_vars, authz_vars, race_vars, ttl_vars, perm_vars, store_vars, role_vars>>

MapSetIdleTimeout ==
    \E key \in DOMAIN cache.sessions, v \in IdleTimeouts :
       /\ Returns("set_idle_timeout", key,
                  set_idle_timeout(handler, cache, key, v, now, "ok"))
       /\ UNCHANGED <<now, next_id, handler, state_vars, authz_vars, race_vars, ttl_vars, perm_vars, store_vars, role_vars>>

MapSetAbsoluteTimeout ==
    \E key \in DOMAIN cache.sessions, v \in AbsoluteTimeouts :
       /\ Returns("set_absolute_timeout", key,
                  set_absolute_timeout(handler, cache, key, v, now, "ok"))
       /\ UNCHANGED <<now, next_id, handler, state_vars, authz_vars, race_vars, ttl_vars, perm_vars, store_vars, role_vars>>

MapStop ==
    \E key \in DOMAIN cache.sessions :
       /\ Returns("stop", key,
                  manager_stop(handler, cache, key, NoIdentifiers, now, "ok"))
       /\ UNCHANGED <<now, next_id, handler, state_vars, authz_vars, race_vars, ttl_vars, perm_vars, store_vars, role_vars>>

NextMap ==
    \/ MapStart
    \/ MapSetIdentifiers
    \/ MapSetOtherInternalAttribute
    \/ MapSetAttribute
    \/ MapRemoveAttribute
    \/ MapTouch
    \/ MapSetIdleTimeout
    \/ MapSetAbsoluteTimeout
    \/ MapStop

SpecMap == InitMap /\ [][NextMap]_vars

---------------------------------------------------------------------------
(* SpecCreate: sessions are started as the clock advances; the id         *)
(* generator yields the next id, None or the empty id, and the event bus  *)
(* works, is not set or raises                                             *)

\* what the id generator yields for a new session
GeneratedIds == {next_id, None, EmptyId}

InitCreate ==
    /\ now = 0
    /\ cache = EmptyCache
    /\ next_id = 1
    /\ \E at \in BOOLEAN, del \in BOOLEAN :
          handler = [auto_touch |-> at, delete_invalid_sessions |-> del,
                     absolute_timeout |-> MaxTimeout, idle_timeout |-> 1]
    /\ coord_call = [op |-> "none"]
    /\ StateIdle
    /\ AuthzIdle
    /\ RaceIdle
    /\ TtlIdle
    /\ PermIdle
    /\ StoreIdle
    /\ RoleIdle

CreateTick ==
    /\ now < MaxCoordTime
    /\ now' = now + 1
    /\ coord_call' = [op |-> "none"]
    /\ UNCHANGED <<cache, next_id, handler, state_vars, authz_vars, race_vars, ttl_vars, perm_vars, store_vars, role_vars>>

\* start(session_context)
Create ==
    \E session_id \in GeneratedIds, bus \in EventBusStates :
       /\ next_id \in SessionIds
       /\ next_id' = IF session_id = next_id THEN next_id + 1 ELSE next_id
       /\ Returns("start", session_id,
                  manager_start(handler, cache, session_id, now, bus))
       /\ UNCHANGED <<now, handler, state_vars, authz_vars, race_vars, ttl_vars, perm_vars, store_vars, role_vars>>

NextCreate ==
    \/ CreateTick
    \/ Create

SpecCreate == InitCreate /\ [][NextCreate]_vars

---------------------------------------------------------------------------
(* CachingSessionStore with or without a cache handler. c is the          *)
(* cache_handler attribute: the cache's content, or NoCacheHandler when   *)
(* none was set, where every use of the attribute is an AttributeError.   *)

\* CachingSessionStore.__init__: self._cache_handler = None
NoCacheHandler == [is_none |-> TRUE]

\* a mutant of CachingSessionStore_create: the principal's mapping is not
\* written
CachingSessionStore_create_unmapped(c, s, session_id) ==
    [session  |-> [s EXCEPT !.session_id = session_id],
     cache    |-> IF c = NoCacheHandler THEN c
                  ELSE _cache(c, [s EXCEPT !.session_id = session_id],
                              session_id),
     outcome  |-> IF c = NoCacheHandler THEN "SessionCacheException" ELSE "ok",
     returned |-> IF c = NoCacheHandler THEN None ELSE session_id]

\* CachingSessionStore.create for the id the generator gave: _do_create
\* assigns the id, then _cache raises when there is no cache handler
CachingSessionStore_create(c, s, session_id) ==
    IF c = NoCacheHandler
    THEN [session  |-> [s EXCEPT !.session_id = session_id],
          cache    |-> c,
          outcome  |-> "SessionCacheException",
          returned |-> None]
    ELSE [session  |-> store_create(c, s, session_id).session,
          cache    |-> store_create(c, s, session_id).cache,
          outcome  |-> "ok",
          returned |-> session_id]

\* CachingSessionStore.read: _get_cached_session swallows the
\* AttributeError and returns None; found is FALSE for the None returned
CachingSessionStore_read(c, sessionid) ==
    IF c = NoCacheHandler
    THEN [found |-> FALSE, outcome |-> "ok"]
    ELSE [found |-> sessionid \in DOMAIN c.sessions, outcome |-> "ok"]

\* CachingSessionStore.update: _cache and _uncache raise
\* SessionCacheException when there is no cache handler
CachingSessionStore_update(c, s, update_identifiers_map) ==
    IF c = NoCacheHandler
    THEN [cache |-> c, outcome |-> "SessionCacheException",
          returned |-> None]
    ELSE [cache |-> store_update(c, s, update_identifiers_map),
          outcome |-> "ok", returned |-> None]

\* CachingSessionStore.delete
CachingSessionStore_delete(c, s) ==
    IF c = NoCacheHandler
    THEN [cache |-> c, outcome |-> "SessionCacheException",
          returned |-> None]
    ELSE [cache |-> store_delete(c, s), outcome |-> "ok",
          returned |-> None]

---------------------------------------------------------------------------
(* SpecStore: one CachingSessionStore, with a cache handler or without,   *)
(* and the session objects of two callers: each object is created in the  *)
(* store, changed by its holder and updated, read and deleted in the      *)
(* store, in any order. The id generator gives object i the id i.         *)

StoreObjects == {1, 2}

StoreCall(op, object, refresh, session_after, r) ==
    [op      |-> op,
     object  |-> object,
     refresh |-> refresh,
     pre     |-> objects[object],
     session |-> session_after,
     cache   |-> cache,
     outcome |-> r.outcome,
     returned |-> r.returned]

InitStore ==
    /\ now = 0
    /\ cache \in {NoCacheHandler, EmptyCache}
    /\ next_id = 1
    /\ handler = [auto_touch |-> TRUE, delete_invalid_sessions |-> TRUE,
                  absolute_timeout |-> None, idle_timeout |-> None]
    /\ coord_call = [op |-> "none"]
    /\ objects = [i \in StoreObjects |-> SimpleSession(0, None, None)]
    /\ store_call = [op |-> "none"]
    /\ StateIdle
    /\ AuthzIdle
    /\ RaceIdle
    /\ TtlIdle
    /\ PermIdle
    /\ RoleIdle

\* the holder of object i changes it to s
Held(i, s) ==
    /\ objects' = [objects EXCEPT ![i] = s]
    /\ store_call' = [op |-> "none"]
    /\ UNCHANGED <<now, coord_vars, state_vars, authz_vars, race_vars, ttl_vars, perm_vars, role_vars>>

\* session.set_internal_attribute('identifiers_session_key', p)
ObjectSetIdentifiers ==
    \E i \in StoreObjects, p \in Principals :
       /\ objects[i].identifiers = NoIdentifiers
       /\ Held(i, [objects[i] EXCEPT !.identifiers = p])

\* session.remove_internal_attribute('identifiers_session_key')
ObjectRemoveIdentifiers ==
    \E i \in StoreObjects :
       /\ objects[i].identifiers # NoIdentifiers
       /\ Held(i, [objects[i] EXCEPT !.identifiers = NoIdentifiers])

\* session.stop()
ObjectStop ==
    \E i \in StoreObjects :
       /\ is_valid(objects[i])
       /\ Held(i, stop(objects[i], now))

\* session.expire()
ObjectExpire ==
    \E i \in StoreObjects :
       /\ is_valid(objects[i])
       /\ Held(i, expire(objects[i], now))

\* store.create(session)
StoreCreate ==
    \E i \in StoreObjects :
       /\ objects[i].session_id = None
       /\ is_valid(objects[i])
       /\ cache' = CachingSessionStore_create(cache, objects[i], i).cache
       /\ objects' = [objects EXCEPT ![i] = CachingSessionStore_create(cache, objects[i], i).session]
       /\ store_call' = StoreCall("create", i, FALSE,
                                  CachingSessionStore_create(cache, objects[i], i).session,
                                  CachingSessionStore_create(cache, objects[i], i))
       /\ UNCHANGED <<now, next_id, handler, coord_call, state_vars, authz_vars, race_vars, ttl_vars, perm_vars, role_vars>>

\* store.read(sessionid)
StoreRead ==
    \E i \in StoreObjects :
       /\ store_call' = [op |-> "read", object |-> i, cache |-> cache,
                         found |-> CachingSessionStore_read(cache, i).found,
                         outcome |-> CachingSessionStore_read(cache, i).outcome]
       /\ UNCHANGED <<now, objects, coord_vars, state_vars, authz_vars, race_vars, ttl_vars, perm_vars, role_vars>>

\* store.update(session, update_identifiers_map)
StoreUpdate ==
    \E i \in StoreObjects, update_identifiers_map \in BOOLEAN :
       /\ objects[i].session_id # None
       /\ cache' = CachingSessionStore_update(cache, objects[i], update_identifiers_map).cache
       /\ store_call' = StoreCall("update", i, update_identifiers_map, objects[i],
                                  CachingSessionStore_update(cache, objects[i], update_identifiers_map))
       /\ UNCHANGED <<now, objects, next_id, handler, coord_call, state_vars, authz_vars, race_vars, ttl_vars, perm_vars, role_vars>>

\* store.delete(session)
StoreDelete ==
    \E i \in StoreObjects :
       /\ objects[i].session_id # None
       /\ cache' = CachingSessionStore_delete(cache, objects[i]).cache
       /\ store_call' = StoreCall("delete", i, FALSE, objects[i],
                                  CachingSessionStore_delete(cache, objects[i]))
       /\ UNCHANGED <<now, objects, next_id, handler, coord_call, state_vars, authz_vars, race_vars, ttl_vars, perm_vars, role_vars>>

NextStore ==
    \/ ObjectSetIdentifiers
    \/ ObjectRemoveIdentifiers
    \/ ObjectStop
    \/ ObjectExpire
    \/ StoreCreate
    \/ StoreRead
    \/ StoreUpdate
    \/ StoreDelete

SpecStore == InitStore /\ [][NextStore]_vars

---------------------------------------------------------------------------
(* IndexedAuthorizationInfo's roles. A set of roles is an object: sets is *)
(* the content of each set object, and an authorization info holds in     *)
(* _roles a reference to one of them. A role is an object with an         *)
(* identifier.                                                             *)

\* the set object that `roles=set()` made when __init__ was defined: the
\* default of every call that passes no roles
DefaultRoles == "default"

\* IndexedAuthorizationInfo.__init__(roles): self._roles = roles
IndexedAuthorizationInfo_init(roles) == [_roles |-> roles]

\* IndexedAuthorizationInfo.roleids
roleids(sets, info) == {role.identifier : role \in sets[info._roles]}

\* IndexedAuthorizationInfo.add_role(role_s): self._roles.update(role_s)
add_role(sets, info, role_s) ==
    [sets EXCEPT ![info._roles] = @ \cup role_s]

---------------------------------------------------------------------------
(* SpecRoles: authorization infos of two principals are constructed, with *)
(* a set of roles of their own or with none given, and roles are added to *)
(* them in any order                                                       *)

InfoIds == {"p1", "p2"}
RoleObjects == {[identifier |-> "admin"], [identifier |-> "user"]}

\* the set object a caller makes for the info of a principal
OwnRoles(i) == i

InitRoles ==
    /\ now = 0
    /\ role_sets = [o \in {DefaultRoles} \cup {OwnRoles(i) : i \in InfoIds} |-> {}]
    /\ infos = << >>
    /\ role_call = [op |-> "none"]
    /\ StateIdle
    /\ CoordIdle
    /\ AuthzIdle
    /\ RaceIdle
    /\ TtlIdle
    /\ PermIdle
    /\ StoreIdle

\* the roleids of every info that exists
AllRoleids(sets) == [j \in DOMAIN infos |-> roleids(sets, infos[j])]

\* IndexedAuthorizationInfo() or IndexedAuthorizationInfo(roles=...) for
\* principal i
NewInfo ==
    \E i \in InfoIds \ DOMAIN infos, explicit \in BOOLEAN :
       /\ infos' = [j \in (DOMAIN infos) \cup {i} |->
                       IF j = i
                       THEN IndexedAuthorizationInfo_init(
                                IF explicit THEN OwnRoles(i) ELSE DefaultRoles)
                       ELSE infos[j]]
       /\ role_call' = [op |-> "IndexedAuthorizationInfo", info |-> i,
                        explicit |-> explicit,
                        before |-> AllRoleids(role_sets)]
       /\ UNCHANGED <<now, role_sets, state_vars, coord_vars, authz_vars, race_vars, ttl_vars, perm_vars, store_vars>>

\* info.add_role(role_s)
AddRole ==
    \E i \in DOMAIN infos, role_s \in (SUBSET RoleObjects) \ {{}} :
       /\ role_sets' = add_role(role_sets, infos[i], role_s)
       /\ role_call' = [op |-> "add_role", info |-> i, role_s |-> role_s,
                        before |-> AllRoleids(role_sets)]
       /\ UNCHANGED <<now, infos, state_vars, coord_vars, authz_vars, race_vars, ttl_vars, perm_vars, store_vars>>

\* an info is dropped by its holder; the set objects stay
DropInfo ==
    \E i \in DOMAIN infos :
       /\ infos' = [j \in (DOMAIN infos) \ {i} |-> infos[j]]
       /\ role_call' = [op |-> "none"]
       /\ UNCHANGED <<now, role_sets, state_vars, coord_vars, authz_vars, race_vars, ttl_vars, perm_vars, store_vars>>

NextRoles ==
    \/ NewInfo
    \/ AddRole
    \/ DropInfo

SpecRoles == InitRoles /\ [][NextRoles]_vars

---------------------------------------------------------------------------
(* Claims about SimpleSession, checked under SpecState *)

\* the validity state of a SessionState: is_expired set is EXPIRED, stop_ts
\* set with is_expired not set is STOPPED, neither is ACTIVE
Validity(s) ==
    IF s.is_expired THEN "EXPIRED"
    ELSE IF s.stop_timestamp # None THEN "STOPPED"
    ELSE "ACTIVE"

\* C1: once stop() has been called on a session, every later validate(),
\* whatever touch(), stop() and expire() calls came in between and however
\* much time has passed, fails with StoppedSession, never with ExpiredSession.
C1_StoppedStaysStopped ==
    (last_call.op = "validate" /\ stop_called)
        => last_call.outcome = "StoppedSessionException"

\* C1's case: validate() on a session that was stopped, at a time past both
\* of its timeouts, has failed with StoppedSession.
C1_Witness ==
    /\ last_call.op = "validate"
    /\ stop_called
    /\ last_call.outcome = "StoppedSessionException"
    /\ last_call.pre.absolute_timeout >= 1
    /\ last_call.pre.idle_timeout >= 1
    /\ last_call.at > last_call.pre.start_timestamp + last_call.pre.absolute_timeout
    /\ last_call.at > last_call.pre.last_access_time + last_call.pre.idle_timeout

\* C2: an active session with an idle timeout I (a positive duration) and no
\* absolute timeout, last touched at t0: validate() at a time <= t0 + I
\* succeeds and leaves the session active; validate() at a time > t0 + I
\* fails with ExpiredSession, and with no other error, and leaves is_expired
\* set.
C2_IdleOnlyValidate ==
    (/\ last_call.op = "validate"
     /\ Validity(last_call.pre) = "ACTIVE"
     /\ last_call.pre.idle_timeout >= 1
     /\ last_call.pre.absolute_timeout = None)
        => IF last_call.at <= last_call.pre.last_access_time
                                 + last_call.pre.idle_timeout
           THEN last_call.outcome = "ok" /\ Validity(session) = "ACTIVE"
           ELSE last_call.outcome = "ExpiredSessionException"
                /\ session.is_expired

\* C3: an active session started at t0 with an absolute timeout A (a positive
\* duration), with or without an idle timeout, however often it was touched:
\* validate() at a time > t0 + A fails with ExpiredSession.
C3_AbsoluteDominates ==
    (/\ last_call.op = "validate"
     /\ Validity(last_call.pre) = "ACTIVE"
     /\ last_call.pre.absolute_timeout >= 1
     /\ last_call.at > last_call.pre.start_timestamp
                          + last_call.pre.absolute_timeout)
        => last_call.outcome = "ExpiredSessionException"

\* C4: under touch(), stop(), expire() and validate() a STOPPED session stays
\* STOPPED (it becomes neither EXPIRED nor ACTIVE) and an EXPIRED session
\* stays EXPIRED.
C4_TerminalStates ==
    (last_call.op \in {"touch", "stop", "expire", "validate"})
        => /\ Validity(last_call.pre) = "STOPPED" => Validity(session) = "STOPPED"
           /\ Validity(last_call.pre) = "EXPIRED" => Validity(session) = "EXPIRED"


---------------------------------------------------------------------------
(* Claims about the session manager, checked under SpecCoord *)

\* the call found a cached session that validate() accepts at the time of
\* the call
FoundValid ==
    /\ coord_call.found
    /\ is_valid(coord_call.pre)
    /\ is_timed_out(coord_call.pre, now) = "False"

\* the call found a cached session whose idle or absolute timeout has passed
FoundTimedOut ==
    /\ coord_call.found
    /\ is_valid(coord_call.pre)
    /\ is_timed_out(coord_call.pre, now) = "True"

PublishFailures == {"SessionEventException", "EventBusError"}

C6_ExpireOnGet ==
    (/\ coord_call.op = "get_session"
     /\ FoundTimedOut
     /\ coord_call.outcome \notin PublishFailures)
        => /\ Len(coord_call.events) = 1
           /\ coord_call.events[1].topic = "SESSION.EXPIRE"
           /\ coord_call.events[1].identifiers = coord_call.pre.identifiers
           /\ coord_call.events[1].session_key = coord_call.key
           /\ coord_call.outcome = "ExpiredSessionException"
           /\ (coord_call.key \notin DOMAIN cache.sessions)
                  <=> handler.delete_invalid_sessions


---------------------------------------------------------------------------
(* Claims about ModularRealmAuthorizer, checked under SpecAuthz *)

\* some realm of the call reported item as permitted (as a role held)
ReportedTrue(item) ==
    \E realm \in DOMAIN authz_call.answers :
        /\ item \in DOMAIN authz_call.answers[realm]
        /\ authz_call.answers[realm][item]

\* no realm is registered: the attribute was never set, or it was set to a
\* collection without an AuthorizingRealm
NoRealmRegistered == realms.is_none \/ realms.tuple = << >>

DecisionCalls == {"is_permitted", "has_role"}
CollectiveCalls == {"is_permitted_collective", "has_role_collective"}
CheckCalls == {"check_permission", "check_role"}

\* C7: for any registered realms and any answers of theirs, the result of
\* is_permitted (and of has_role) holds each requested item exactly once,
\* with true exactly when some realm reported true for it, whatever the
\* order of the realms
C7_OrMerge ==
    (authz_call.op \in DecisionCalls /\ authz_call.outcome = "ok")
        => \A item \in authz_call.requested :
              /\ Cardinality({p \in authz_call.results : p[1] = item}) = 1
              /\ <<item, ReportedTrue(item)>> \in authz_call.results

\* C8: is_permitted_collective with ALL returns true, and check_permission
\* with ALL returns, only if every requested permission was reported
\* permitted by some realm, also when realms report fewer decisions than
\* requested or none
C8_AllNeedsEveryItem ==
    (/\ authz_call.op \in {"is_permitted_collective", "check_permission"}
     /\ authz_call.logical_operator = "all"
     /\ authz_call.outcome = "ok"
     /\ authz_call.op = "is_permitted_collective"
            => authz_call.granted = "True")
        => \A item \in authz_call.requested : ReportedTrue(item)

\* C9: with no realm registered, each of the six calls raises the
\* configuration error (IllegalStateException), returns no decision and
\* publishes no event
C9_NoRealmsFails ==
    (/\ authz_call.op \in DecisionCalls \cup CollectiveCalls \cup CheckCalls
     /\ NoRealmRegistered)
        => /\ authz_call.outcome = "IllegalStateException"
           /\ authz_call.results = {}
           /\ authz_call.granted = "none"
           /\ authz_call.events = << >>

\* check_role refused on an authorizer whose realms were set to a collection
\* without an AuthorizingRealm, with an event bus set
C9_Witness ==
    /\ authz_call.op = "check_role"
    /\ ~realms.is_none
    /\ realms.tuple = << >>
    /\ ~event_bus.is_none
    /\ authz_call.outcome = "IllegalStateException"
    /\ authz_call.events = << >>

\* C10: check_permission and check_role raise UnauthorizedException exactly
\* when, with ALL, some requested item has no realm reporting true for it,
\* and with ANY, every requested item has no realm reporting true for it;
\* otherwise they return
C10_RaisesIffDenied ==
    (/\ authz_call.op \in CheckCalls
     /\ authz_call.outcome \in {"ok", "UnauthorizedException"})
        => (authz_call.outcome = "UnauthorizedException"
               <=> IF authz_call.logical_operator = "all"
                   THEN \E item \in authz_call.requested : ~ReportedTrue(item)
                   ELSE \A item \in authz_call.requested : ~ReportedTrue(item))


\* the items some realm of the call reported on
Reported ==
    {item \in authz_call.requested :
        \E realm \in DOMAIN authz_call.answers :
            item \in DOMAIN authz_call.answers[realm]}

\* the combinator of the call over the OR-merged Booleans of the items
Combined ==
    IF authz_call.logical_operator = "all"
    THEN \A item \in Reported : ReportedTrue(item)
    ELSE \E item \in Reported : ReportedTrue(item)

Invoked == {authz_call.invoked[k] : k \in 1..Len(authz_call.invoked)}

\* every realm's clear_cached_authorization_info returned normally
SourcesReturn ==
    \A realm \in DOMAIN authz_call.outcomes : authz_call.outcomes[realm] = "ok"

\* C12: once the realms were set on an authorizer with an event bus
\* attached, a publication of SESSION.STOP, SESSION.EXPIRE or
\* AUTHENTICATION.SUCCEEDED that carries a principal p invokes
\* clear_cached_authorization_info(p) on every realm currently registered
C12_PublicationClears ==
    (/\ authz_call.op = "publish"
     /\ registered
     /\ authz_call.identifiers # NoIdentifiers)
        => \A realm \in RealmsOf(realms) :
              <<realm, authz_call.identifiers>> \in Invoked

\* the same, for the publications during which every realm's method
\* returns normally
PublicationClearsWhenSourcesReturn ==
    (/\ authz_call.op = "publish"
     /\ registered
     /\ authz_call.identifiers # NoIdentifiers
     /\ SourcesReturn)
        => \A realm \in RealmsOf(realms) :
              <<realm, authz_call.identifiers>> \in Invoked

\* SESSION.EXPIRE for p1 published with two realms registered: both invoked
PublicationClearsWitness ==
    /\ authz_call.op = "publish"
    /\ registered
    /\ authz_call.topic = "SESSION.EXPIRE"
    /\ authz_call.identifiers = "p1"
    /\ realms.tuple = <<"r2", "r1">>
    /\ authz_call.invoked = << <<"r2", "p1">>, <<"r1", "p1">> >>
    /\ \A realm \in DOMAIN authz_call.outcomes :
          authz_call.outcomes[realm] = "ok"
    /\ authz_call.outcome = "ok"


\* C13: every authentication of a principal p that succeeds
\* (authenticate_account returning the account after publishing
\* AUTHENTICATION.SUCCEEDED) has clear_cached_authorization_info(p) invoked
\* on every registered realm, the realms' own method returning normally
C13_AuthenticationClears ==
    (/\ authz_call.op = "authenticate"
     /\ registered
     /\ authz_call.result = "account"
     /\ authz_call.outcome = "ok"
     /\ SourcesReturn)
        => \A realm \in RealmsOf(realms) :
              <<realm, authz_call.identifiers>> \in Invoked


\* a realm that was invoked during the publication and failed
SourceFailed ==
    \E k \in 1..Len(authz_call.invoked) :
       authz_call.outcomes[authz_call.invoked[k][1]] # "ok"

\* C14: when a realm's clear_cached_authorization_info fails, with
\* whatever error, while the listener handles a publication of one of the
\* three topics, the listener swallows the failure and the publisher ends
\* as if the listener had succeeded
C14_ClearFailureSwallowed ==
    (authz_call.op = "publish" /\ SourceFailed)
        => /\ authz_call.listener = "ok"
           /\ authz_call.outcome = "ok"


\* the calls of SpecRace that have just returned successfully
Succeeded(th) == threads[th].pc = "done" /\ threads[th].outcome = "ok"

\* no get_session or mutator call validates its copy, and so succeeds,
\* later than start_timestamp + absolute_timeout
NoLateSuccess ==
    \A th \in DOMAIN threads :
       (Succeeded(th) /\ threads[th].op # "stop")
           => threads[th].validated_at
                  <= threads[th].session.start_timestamp
                         + threads[th].session.absolute_timeout

\* the cached entry is what the completed calls made of the session, but
\* for last_access_time: not there once a stop completed or the session
\* expired, and with the attribute that was set last
OnlyLastAccessLost ==
    RaceKey \in DOMAIN cache.sessions
        => /\ ~serial.stopped
           /\ cache.sessions[RaceKey].identifiers = serial.identifiers

\* C15: threads call get_session, touch, an attribute mutator and stop for
\* one session id, their read, validate, touch and write steps interleaved
\* and the cache keeping the last write, the absolute timeout unchanged: no
\* get_session or mutator call succeeds later than start_timestamp +
\* absolute_timeout, and a lost write changes last_access_time only
C15_RaceBackstop ==
    (threads # << >>) => (NoLateSuccess /\ OnlyLastAccessLost)


\* C16: the cache store enforces the absolute timeout: at no time later
\* than start_timestamp + absolute_timeout is the session's entry in the
\* cache, whatever touches and updates have re-written it
C16_StoreEnforcesAbsolute ==
    set_at # None
        => \A session_key \in DOMAIN cache.sessions :
              now <= cache.sessions[session_key].start_timestamp
                         + cache.sessions[session_key].absolute_timeout


\* C17: for an index of permissions of one domain token each and a
\* requested permission of one domain token, the decision over the bucket
\* of the wildcard domain united with the bucket of the requested domain
\* is the decision over all the granted permissions: true if and only if
\* some granted permission implies the request
C17_IndexHidesNothing ==
    perm_call.op = "is_permitted"
        => (perm_call.result
                <=> \E granted \in inserted : implies(granted, perm_call.argument))

\* x:x is permitted by the granted * while x and y:x have buckets too
C17_Witness ==
    /\ perm_call.op = "is_permitted"
    /\ perm_call.argument = setparts(<< <<"x">>, <<"x">> >>)
    /\ inserted = {setparts(<< <<"*">> >>), setparts(<< <<"y">>, <<"x">> >>)}
    /\ perm_call.result = TRUE

\* the permissions inserted and not replaced whose domain token is domain
InsertedUnder(domain) == {p \in inserted : p["domain"] = {domain}}

\* C18: after any index, add and replace calls with permissions of one
\* domain token each, get(d) gives exactly the permissions inserted, and
\* not replaced since, whose domain token is d, the empty set when there
\* are none and without making a bucket, and the union of the buckets is
\* exactly the set of those permissions
C18_IndexExact ==
    perm_call.op # "none"
        => /\ permissions(authz_info) = inserted
           /\ \A domain \in IndexDomains :
                 get_permission(authz_info, domain) = InsertedUnder(domain)
           /\ perm_call.op = "get_permission"
                 => /\ perm_call.result = InsertedUnder(perm_call.argument)
                    /\ DOMAIN authz_info = perm_call.buckets

\* get("y") after x and y:x were inserted, x:x added and all replaced by
\* y and *:x: the bucket of y holds y only
C18_Witness ==
    /\ perm_call.op = "get_permission"
    /\ perm_call.argument = "y"
    /\ inserted = {setparts(<< <<"y">> >>), setparts(<< <<"*">>, <<"x">> >>)}
    /\ perm_call.result = {setparts(<< <<"y">> >>)}
    /\ DOMAIN authz_info = {"y", "*"}

\* the level of the granted permission matches that of the requested one
LevelMatches(level) ==
    \/ WILDCARD_TOKEN \in perm_call.granted[level]
    \/ perm_call.requested[level] \subseteq perm_call.granted[level]

\* C19: for permissions g and r made from wildcard strings, the levels a
\* string omits being the wildcard set, g.implies(r) is true if and only
\* if at each of the levels domain, action and target g's set holds the
\* wildcard or r's set is a subset of g's set
C19_ImpliesLevelwise ==
    perm_call.op = "implies"
        => (perm_call.result = "True" <=> \A level \in Levels : LevelMatches(level))

\* x:y,* implies x:x:y, whose target the granted string omits
C19_Witness ==
    /\ perm_call.op = "implies"
    /\ perm_call.wildcard_strings = << << <<"x">>, <<"*", "y">> >>,
                                       << <<"x">>, <<"x">>, <<"y">> >> >>
    /\ perm_call.result = "True"

\* the number of parts the strings of the call were written with
GrantedString == perm_call.wildcard_strings[1]
RequestedString == perm_call.wildcard_strings[2]

\* the granted permission holds the wildcard at level k; the requested
\* string has explicit levels below k only, and the two agree below k
WildcardAt(k) ==
    /\ WILDCARD_TOKEN \in perm_call.granted[part_indices[k]]
    /\ Len(RequestedString) < k
    /\ \A l \in 1..(k - 1) :
          perm_call.requested[part_indices[l]]
              = perm_call.granted[part_indices[l]]

\* C20, as stated: a granted permission with a wildcard at level k implies
\* any requested permission that agrees with it on the levels before k and
\* has fewer than k + 1 explicit levels (a granted d:*:t implies d)
C20_WildcardLevelImplies ==
    perm_call.op = "implies"
        => \A k \in DOMAIN part_indices :
              WildcardAt(k) => perm_call.result = "True"

\* C20, amended: it does so when the granted permission holds the wildcard
\* at level k and at every level after k (a granted d:* or d:*:* implies d)
C20_WildcardTailImplies ==
    perm_call.op = "implies"
        => \A k \in DOMAIN part_indices :
              (/\ WildcardAt(k)
               /\ \A l \in k..Len(part_indices) :
                     WILDCARD_TOKEN \in perm_call.granted[part_indices[l]])
                  => perm_call.result = "True"

\* x:*:* implies x
C20_Witness ==
    /\ perm_call.op = "implies"
    /\ GrantedString = << <<"x">>, <<"*">>, <<"*">> >>
    /\ RequestedString = << <<"x">> >>
    /\ WildcardAt(2)
    /\ perm_call.result = "True"


\* the string has an empty subpart somewhere: it is empty, or has a part
\* that is empty or of dividers only, or a part with an empty subpart
Malformed(wildcard_string) ==
    \E p \in DOMAIN wildcard_string :
       \E sp \in DOMAIN wildcard_string[p] : wildcard_string[p][sp] = ""

\* the calls that parse a string
ParsingCalls == {"DefaultPermission", "setparts", "domain", "action", "target"}

\* C21: parsing fails for every string that is empty, or in which a part
\* is empty or consists of dividers only, or in which a subpart of a part
\* is empty: no such string yields a permission
C21_ParseRejects ==
    (/\ perm_call.op \in ParsingCalls
     /\ perm_call.wildcard_string # NoneString
     /\ Malformed(perm_call.wildcard_string))
        => perm_call.outcome = InvalidArgumentException

\* what the code does reject: a part that is empty or of dividers only,
\* and the empty string when setparts is what is called
PartOfDividersRejected ==
    (/\ perm_call.op \in ParsingCalls
     /\ perm_call.wildcard_string # NoneString
     /\ \/ \E p \in DOMAIN perm_call.wildcard_string :
              just_subpart_dividers(perm_call.wildcard_string[p])
        \/ perm_call.wildcard_string = EmptyString
     /\ ~(perm_call.op = "DefaultPermission"
          /\ perm_call.wildcard_string = EmptyString))
        => perm_call.outcome = InvalidArgumentException


\* C22: a permission is immutable: no setter and no other call on it after
\* its construction changes its parts, so it stays equal to what it was
C22_Immutable ==
    (perm_call.op \in {"setparts", "domain", "action", "target"})
        => eq(perm_object, perm_call.pre)


\* a timeout is set when it is not None, whatever the duration
TimeoutSet(d) == d # None

\* what C23 says is_timed_out returns for session s at time t
TimedOutAsStated(s, t) ==
    \/ s.is_expired
    \/ TimeoutSet(s.absolute_timeout)
          /\ t > s.start_timestamp + s.absolute_timeout
    \/ TimeoutSet(s.idle_timeout)
          /\ t > s.last_access_time + s.idle_timeout

\* C23: for every session whose last_access_time is set and every instant,
\* is_timed_out returns is_expired, or the absolute timeout is set and now
\* is later than start + absolute timeout, or the idle timeout is set and
\* now is later than last access + idle timeout; a timeout of any duration
\* from zero up counts as set
C23_TimedOutFormula ==
    (last_call.op = "is_timed_out" /\ DatetimeTruthy(session.last_access_time))
        => last_call.outcome =
              (IF TimedOutAsStated(session, last_call.at) THEN "True" ELSE "False")

\* the same with a timeout counting as set when it is a duration above
\* zero, as the code tests it
TimedOutAsCoded(s, t) ==
    \/ s.is_expired
    \/ TimedeltaTruthy(s.absolute_timeout)
          /\ t > s.start_timestamp + s.absolute_timeout
    \/ TimedeltaTruthy(s.idle_timeout)
          /\ t > s.last_access_time + s.idle_timeout

TimedOutFormulaAboveZero ==
    (last_call.op = "is_timed_out" /\ DatetimeTruthy(session.last_access_time))
        => last_call.outcome =
              (IF TimedOutAsCoded(session, last_call.at) THEN "True" ELSE "False")


\* C24: is_timed_out on a session that is not expired fails with
\* IllegalState when neither timeout is configured and last_access_time is
\* not set
C24_IllegalStateWithoutTimeouts ==
    (/\ last_call.op = "is_timed_out"
     /\ ~session.is_expired
     /\ session.absolute_timeout = None
     /\ session.idle_timeout = None
     /\ session.last_access_time = None)
        => last_call.outcome = "IllegalStateException"

\* what the code does: it raises exactly when the session is not expired,
\* last_access_time is not set and some timeout is a duration above zero
IllegalStateWithATimeout ==
    (last_call.op = "is_timed_out")
        => (last_call.outcome = "IllegalStateException"
               <=> /\ ~session.is_expired
                   /\ session.last_access_time = None
                   /\ \/ TimedeltaTruthy(session.absolute_timeout)
                      \/ TimedeltaTruthy(session.idle_timeout))


\* the session is terminal: stopped or expired
Terminal(s) == is_stopped(s) \/ s.is_expired

\* C25: a session is read-only once terminal: after it was stopped or
\* expired no call (touch, stop, expire, validate, a setter) changes any of
\* its fields
C25_TerminalReadOnly ==
    (last_call.op # "none" /\ Terminal(last_call.pre))
        => session = last_call.pre

\* what does hold: stop and validate leave a terminal session as it was
TerminalKeptByStopAndValidate ==
    (last_call.op \in {"stop", "validate"} /\ Terminal(last_call.pre))
        => session = last_call.pre


\* the call is a get_session that returned the session
GetSessionSucceeded == coord_call.op = "get_session" /\ coord_call.outcome = "ok"

\* C26: after get_session(key) succeeds with auto-touch enabled, the entry
\* in the cache for that id has last_access_time equal to the time of the
\* call, which is not earlier than the value it replaced; with auto-touch
\* disabled a successful get_session writes nothing to the cache, and
\* last_access_time is as it was
C26_GetSessionTouches ==
    GetSessionSucceeded
        => /\ coord_call.key \in DOMAIN cache.sessions
           /\ IF handler.auto_touch
              THEN /\ cache.sessions[coord_call.key].last_access_time = now
                   /\ coord_call.pre.last_access_time <= now
              ELSE /\ cache = coord_call.cache
                   /\ cache.sessions[coord_call.key].last_access_time
                         = coord_call.pre.last_access_time

\* a get_session under auto-touch, later than the last access, succeeded
C26_Witness ==
    /\ GetSessionSucceeded
    /\ handler.auto_touch
    /\ coord_call.pre.last_access_time < now
    /\ cache.sessions[coord_call.key].last_access_time = now

\* a get_session without auto-touch, later than the last access, succeeded
GetSessionUntouchedWitness ==
    /\ GetSessionSucceeded
    /\ ~handler.auto_touch
    /\ coord_call.pre.last_access_time < now


\* the mutators of a field other than the principal identifiers
OtherMutators == {"set_other_internal_attribute", "set_attribute", "remove_attribute", "touch", "set_idle_timeout", "set_absolute_timeout"}

\* C27: a mutator refreshes the principal -> session key mapping only when
\* the field it sets is the principal identifiers attribute: every other
\* mutator that succeeds leaves the mapping in the cache as it was
C27_OnlyIdentifiersRefresh ==
    (coord_call.op \in OtherMutators /\ coord_call.outcome = "ok")
        => cache.keys = coord_call.cache.keys

\* what does hold: the mutators of attributes, of the timeouts and touch
\* leave the mapping as it was
MappingKeptByNonInternalMutators ==
    (/\ coord_call.op \in OtherMutators \ {"set_other_internal_attribute"}
     /\ coord_call.outcome = "ok")
        => cache.keys = coord_call.cache.keys


\* the call is a start for which the generator yielded session_id
Started(session_id) == coord_call.op = "start" /\ coord_call.key = session_id

\* exactly one SESSION.START was handed to the bus, with the new id, when
\* the session was in the cache
OneStartEvent ==
    /\ Len(coord_call.events) = 1
    /\ coord_call.events[1].topic = "SESSION.START"
    /\ coord_call.events[1].session_key = coord_call.key
    /\ coord_call.events[1].cached

\* C28: when the id generator yields None or an empty id, start fails with
\* SessionCreationException and publishes no SESSION.START; otherwise a
\* start that returns has published exactly one SESSION.START with the new
\* id, after the session was persisted
C28_CreateNeedsId ==
    /\ (Started(None) \/ Started(EmptyId))
          => /\ coord_call.outcome = "SessionCreationException"
             /\ coord_call.events = << >>
    /\ (coord_call.op = "start" /\ IdTruthy(coord_call.key)
           /\ coord_call.outcome = "ok")
          => OneStartEvent

\* what does hold: an empty id fails with SessionCreationException, the id
\* None fails, neither publishes, and a start that returns has published
EmptyIdFailsCreation ==
    /\ Started(EmptyId)
          => /\ coord_call.outcome = "SessionCreationException"
             /\ coord_call.events = << >>
    /\ Started(None)
          => /\ coord_call.outcome = "InvalidArgumentException"
             /\ coord_call.events = << >>
             /\ cache = coord_call.cache
    /\ (coord_call.op = "start" /\ IdTruthy(coord_call.key)
           /\ coord_call.outcome = "ok")
          => OneStartEvent


\* C29: when the publication of SESSION.START fails, start fails and the
\* session it was creating is not left in the cache: neither its entry nor
\* a principal mapping to it
C29_FailedStartLeavesNothing ==
    (coord_call.op = "start" /\ coord_call.outcome \in PublishFailures)
        => /\ coord_call.key \notin DOMAIN cache.sessions
           /\ \A p \in DOMAIN cache.keys : cache.keys[p] # coord_call.key


\* the calls that take a session key
KeyedCalls == {"get_session", "stop", "touch", "set_idle_timeout", "set_absolute_timeout", "set_internal_attribute", "remove_internal_attribute", "set_other_internal_attribute", "set_attribute", "remove_attribute"}

\* C30: for a key whose session id has no entry in the cache, because no
\* session was started with it or because the session was stopped, expired
\* or deleted, get_session, stop and every mutator fail with
\* UnknownSessionException, write nothing to the cache and publish no event
C30_UnknownSession ==
    (coord_call.op \in KeyedCalls /\ ~coord_call.found)
        => /\ coord_call.outcome = "UnknownSessionException"
           /\ cache = coord_call.cache
           /\ coord_call.events = << >>

\* touch with the key of a session that was started and is in the cache
\* no longer
C30_Witness ==
    /\ coord_call.op = "touch"
    /\ ~coord_call.found
    /\ coord_call.key < next_id
    /\ coord_call.outcome = "UnknownSessionException"
    /\ handler.auto_touch



---------------------------------------------------------------------------
(* Claims about CachingSessionStore, checked under SpecStore *)

\* the last call was a create that returned an id
CreateReturned == store_call.op = "create" /\ store_call.outcome = "ok"

\* C31: after create(session) has returned the id of a session that belongs
\* to principal p, the session carries that id, the cache maps the id to the
\* session, and the cache maps p to the session key of that id
C31_CreateCaches ==
    (CreateReturned /\ store_call.pre.identifiers # NoIdentifiers) =>
        /\ objects[store_call.object].session_id = store_call.returned
        /\ store_call.returned \in DOMAIN cache.sessions
        /\ cache.sessions[store_call.returned] = objects[store_call.object]
        /\ store_call.pre.identifiers \in DOMAIN cache.keys
        /\ cache.keys[store_call.pre.identifiers] = store_call.returned

\* a session of a principal was created while the other session of the same
\* principal is in the cache
C31_Witness ==
    /\ CreateReturned
    /\ store_call.pre.identifiers # NoIdentifiers
    /\ store_call.returned = 2
    /\ 1 \in DOMAIN cache.sessions

\* the last call was an update that returned
UpdateReturned == store_call.op = "update" /\ store_call.outcome = "ok"

\* C32: after update(session, refresh) of a valid session the cache entry
\* of its id equals the session, and the principal mapping is written only
\* when refresh is true; after update of a stopped or expired session the
\* cache holds neither the session's entry nor a principal mapping that
\* names the session
C32_UpdateWritesOrEvicts ==
    UpdateReturned =>
        IF is_valid(store_call.pre)
        THEN /\ store_call.pre.session_id \in DOMAIN cache.sessions
             /\ cache.sessions[store_call.pre.session_id] = store_call.pre
             /\ ~store_call.refresh => cache.keys = store_call.cache.keys
        ELSE /\ store_call.pre.session_id \notin DOMAIN cache.sessions
             /\ \A p \in DOMAIN cache.keys :
                   cache.keys[p] # store_call.pre.session_id

\* what does hold: a valid session is written, with its mapping only under
\* refresh, and an invalid session's entry is gone together with whatever
\* is mapped under the identifiers the session object carries
UpdateWritesOrEvictsOwnIdentifiers ==
    UpdateReturned =>
        IF is_valid(store_call.pre)
        THEN /\ store_call.pre.session_id \in DOMAIN cache.sessions
             /\ cache.sessions[store_call.pre.session_id] = store_call.pre
             /\ ~store_call.refresh => cache.keys = store_call.cache.keys
        ELSE /\ store_call.pre.session_id \notin DOMAIN cache.sessions
             /\ store_call.pre.identifiers \notin DOMAIN cache.keys

\* the last call was made on a store that has no cache handler
NoBackend == store_call.op # "none" /\ store_call.cache = NoCacheHandler

\* C33: with no cache handler each of create, read, update and delete fails
\* with SessionCacheException, and a failed create leaves the session
\* passed to it as it was
C33_NoBackendFails ==
    NoBackend =>
        /\ store_call.outcome = "SessionCacheException"
        /\ store_call.op = "create" => store_call.session = store_call.pre

\* what does hold: update and delete fail with SessionCacheException and
\* leave the session object as it was
NoBackendUpdateDeleteFail ==
    (NoBackend /\ store_call.op \in {"update", "delete"}) =>
        /\ store_call.outcome = "SessionCacheException"
        /\ store_call.session = store_call.pre



---------------------------------------------------------------------------
(* Further claims about the session manager, checked under SpecCoord *)

\* the topics of the events that end a session
EndTopics == {"SESSION.STOP", "SESSION.EXPIRE"}

\* C34: in stop and in get_session's handling of an expired or stopped
\* session the event is published before the session is removed: at the
\* moment SESSION.STOP or SESSION.EXPIRE is handed to the bus the session's
\* entry is still in the cache
C34_PublishBeforeRemoval ==
    coord_call.op \in {"stop", "get_session"} =>
        \A i \in DOMAIN coord_call.events :
            coord_call.events[i].topic \in EndTopics
                => coord_call.events[i].cached

\* what does hold: whenever SESSION.STOP or SESSION.EXPIRE is handed to the
\* bus, the session's entry is already out of the cache
RemovedBeforePublished ==
    coord_call.op \in {"stop", "get_session"} =>
        \A i \in DOMAIN coord_call.events :
            coord_call.events[i].topic \in EndTopics
                => ~coord_call.events[i].cached



\* C36: after any sequence of calls on the session manager over a cache
\* that stores copies, every session entry in the cache is a valid session:
\* its stop_timestamp is unset and its is_expired flag is not set
C36_CachedSessionsValid ==
    \A session_key \in DOMAIN cache.sessions :
        /\ cache.sessions[session_key].stop_timestamp = None
        /\ ~cache.sessions[session_key].is_expired

\* with invalid sessions not deleted, a second session is in the cache
\* after the first was stopped or expired, and has just been changed
C36_Witness ==
    /\ ~handler.delete_invalid_sessions
    /\ next_id = 3
    /\ 2 \in DOMAIN cache.sessions
    /\ coord_call.op = "set_idle_timeout"
    /\ coord_call.outcome = "ok"

---------------------------------------------------------------------------
(* A further claim about the principal mapping, checked under SpecMap *)

\* the last call stopped session A while the cache mapped A's principal to
\* another session B of the same principal that was in the cache
StoppedBesideMapped(B) ==
    /\ coord_call.op = "stop"
    /\ coord_call.outcome = "ok"
    /\ coord_call.found
    /\ B # coord_call.key
    /\ B \in DOMAIN coord_call.cache.sessions
    /\ coord_call.pre.identifiers # NoIdentifiers
    /\ coord_call.cache.sessions[B].identifiers = coord_call.pre.identifiers
    /\ coord_call.pre.identifiers \in DOMAIN coord_call.cache.keys
    /\ coord_call.cache.keys[coord_call.pre.identifiers] = B

\* C37: stopping one session never removes the principal mapping that
\* points to a different session that is still active: when principal p
\* has the sessions A and B and p is mapped to B, then after A is stopped
\* the cache still maps p to B
C37_OtherMappingKept ==
    \A B \in MapSessionIds :
        StoppedBesideMapped(B) =>
            /\ coord_call.pre.identifiers \in DOMAIN cache.keys
            /\ cache.keys[coord_call.pre.identifiers] = B

\* what does hold: stopping a session that carries no identifiers leaves
\* the mapping as it was
StopWithoutIdentifiersKeepsMapping ==
    (/\ coord_call.op = "stop"
     /\ coord_call.outcome = "ok"
     /\ coord_call.pre.identifiers = NoIdentifiers)
        => cache.keys = coord_call.cache.keys

---------------------------------------------------------------------------
(* A further claim about ModularRealmAuthorizer, checked under SpecAuthz *)

\* an event bus is set and at least one authorizing realm is registered
BusAndSourceConfigured ==
    /\ ~event_bus.is_none
    /\ ~realms.is_none
    /\ Len(realms.tuple) >= 1

\* C38: the wiring of cache invalidation does not depend on the order of
\* configuration: whenever an event bus and at least one realm are
\* configured, the listeners for SESSION.STOP, SESSION.EXPIRE and
\* AUTHENTICATION.SUCCEEDED are registered on the event bus
C38_WiringAnyOrder ==
    BusAndSourceConfigured => CacheClearListeners \subseteq event_bus.listeners

\* what does hold: once the realms were set while an event bus was
\* attached, the three listeners are registered on it
WiredWhenRealmsSetAfterBus ==
    registered => CacheClearListeners \subseteq event_bus.listeners

---------------------------------------------------------------------------
(* A claim about IndexedAuthorizationInfo's roles, checked under SpecRoles *)

\* C39: the authorization data of different principals is isolated: roles
\* added with add_role to one authorization info are never visible in the
\* roleids of another, also when both were constructed without a set of
\* roles given
C39_RolesIsolated ==
    role_call.op = "add_role" =>
        \A j \in (DOMAIN infos) \ {role_call.info} :
            roleids(role_sets, infos[j]) = role_call.before[j]

\* what does hold: roles added to an info leave the roleids of every other
\* info that was constructed with a set of roles of its own as they were
RolesIsolatedWithOwnSets ==
    role_call.op = "add_role" =>
        \A j \in (DOMAIN infos) \ {role_call.info} :
            infos[j]._roles # DefaultRoles
                => roleids(role_sets, infos[j]) = role_call.before[j]

---------------------------------------------------------------------------
(* A further claim about WildcardPermission.implies, checked under        *)
(* SpecImplies                                                             *)

\* the permissions the well formed wildcard strings are parsed to
ParsedSpecs == {setparts(wildcard_string) : wildcard_string \in WildcardStrings}

\* the parsed permissions that each parsed permission implies
Implied == [a \in ParsedSpecs |-> {c \in ParsedSpecs : implies(a, c)}]

\* C40: implies is a preorder on the parsed permissions: a.implies(a) is
\* true, and a.implies(b) together with b.implies(c) entails a.implies(c),
\* for all a, b and c over the tokens, the wildcard, parts of several
\* tokens and omitted parts included
C40_ImpliesPreorder ==
    perm_call.op = "implies" =>
        /\ perm_call.granted = perm_call.requested => perm_call.result = "True"
        /\ perm_call.result = "True" =>
              Implied[perm_call.requested] \subseteq Implied[perm_call.granted]

\* a chain of three different permissions: the granted one has an omitted
\* part, the requested one a part of two tokens, and the requested one
\* implies a third
C40_Witness ==
    /\ perm_call.op = "implies"
    /\ perm_call.result = "True"
    /\ perm_call.granted # perm_call.requested
    /\ Len(perm_call.wildcard_strings[1]) = 2
    /\ Cardinality(perm_call.requested["action"]) = 2
    /\ Implied[perm_call.requested] # {perm_call.requested}

---------------------------------------------------------------------------
(* A further claim about calls made at the same time, checked under       *)
(* SpecRace                                                                *)

\* C35: a completed stop is never undone: no call that reads the session
\* after a stop of it has finished succeeds, also when another call on the
\* same session id read the session before the stop and writes it back
\* after the stop
C35_StopNeverUndone ==
    \A th \in DOMAIN threads : Succeeded(th) => ~threads[th].after_stop

====
